---- MODULE Spec2Model ----
(***************************************************************************)
(* A model of the deterministic segment scheduler of GTA-V-Radio:          *)
(* SeededPRNG, IndexDrawPool, IndexDrawPoolManager (source/utility.js) and *)
(* RadioStation with its three variants (js/radio.js).                     *)
(*                                                                         *)
(* Numbers.  TLC integers are 32-bit signed, the generator works on        *)
(* unsigned 32-bit words and on doubles up to 2^58.  A 32-bit word is the  *)
(* record [hi, lo] of its two 16-bit halves; the products are computed on  *)
(* 14-bit limbs and rounded to 53 significant bits as a double is.         *)
(* Durations are whole seconds; a timestamp is the pair <<month, ms>>      *)
(* standing for Date.UTC(month) + ms.                                      *)
(***************************************************************************)
EXTENDS Integers, Sequences, FiniteSets, TLC

(***************************************************************************)
(* Bit operations on naturals.                                             *)
(***************************************************************************)
Bit(a, i) == (a \div (2 ^ i)) % 2

XorBit(a, b, i) == (2 ^ i) * ((Bit(a, i) + Bit(b, i)) % 2)

\* a ^ b on naturals below 2^16
Xor16(a, b) ==
    XorBit(a, b, 0) +
    XorBit(a, b, 1) +
    XorBit(a, b, 2) +
    XorBit(a, b, 3) +
    XorBit(a, b, 4) +
    XorBit(a, b, 5) +
    XorBit(a, b, 6) +
    XorBit(a, b, 7) +
    XorBit(a, b, 8) +
    XorBit(a, b, 9) +
    XorBit(a, b, 10) +
    XorBit(a, b, 11) +
    XorBit(a, b, 12) +
    XorBit(a, b, 13) +
    XorBit(a, b, 14) +
    XorBit(a, b, 15)

\* the number of significant bits of a natural below 2^30
BitLen(a) == CHOOSE n \in 0..30 : a < 2 ^ n /\ (n = 0 \/ 2 ^ (n - 1) <= a)

Pow2(n) == 2 ^ n

W16 == 65536
L14 == 16384

Word(hi, lo) == [hi |-> hi, lo |-> lo]

\* a ^ b on 32-bit words
Xor32(a, b) == Word(Xor16(a.hi, b.hi), Xor16(a.lo, b.lo))

\* a >>> k for 0 < k < 16 ... 32, on the unsigned word
Shr32(a, k) ==
    IF k >= 16
    THEN Word(0, a.hi \div Pow2(k - 16))
    ELSE Word(a.hi \div Pow2(k),
              ((a.hi % Pow2(k)) * Pow2(16 - k)) + (a.lo \div Pow2(k)))

\* the word is negative when read as a signed 32-bit integer (ToInt32)
IsNeg32(a) == a.hi >= 32768

\* two's complement of a word: ToUint32(-x)
Neg32(a) ==
    IF a.lo = 0 THEN Word((W16 - a.hi) % W16, 0)
    ELSE Word(W16 - 1 - a.hi, W16 - a.lo)

\* x mod m for a word x and a small modulus m > 0 (randomInteger % length)
Mod32(a, m) == (((a.hi % m) * (W16 % m)) + (a.lo % m)) % m

(***************************************************************************)
(* The multiplier of the hash and its two 14-bit limbs.                    *)
(***************************************************************************)
HashMultiplier == 73244475
MulLimb0 == HashMultiplier % L14
MulLimb1 == HashMultiplier \div L14

\* |x| of a signed 32-bit word, as three 14-bit limbs (least significant first)
MagLimbs(a) ==
    LET m == IF IsNeg32(a) THEN Neg32(a) ELSE a
        \* Neg32 of -2^31 is 2^31 itself: hi = 32768, lo = 0
        l0 == m.lo % L14
        l1 == (m.lo \div L14) + ((m.hi % 4096) * 4)
        l2 == m.hi \div 4096
    IN <<l0, l1, l2>>

\* the exact product |x| * HashMultiplier as five 14-bit limbs
MulLimbs(x) ==
    LET c0 == x[1] * MulLimb0
        c1 == (x[2] * MulLimb0) + (x[1] * MulLimb1) + (c0 \div L14)
        c2 == (x[3] * MulLimb0) + (x[2] * MulLimb1) + (c1 \div L14)
        c3 == (x[3] * MulLimb1) + (c2 \div L14)
    IN <<c0 % L14, c1 % L14, c2 % L14, c3 % L14, c3 \div L14>>

\* the number of significant bits of a limb sequence
LimbBits(p) ==
    IF p[5] # 0 THEN 56 + BitLen(p[5])
    ELSE IF p[4] # 0 THEN 42 + BitLen(p[4])
    ELSE IF p[3] # 0 THEN 28 + BitLen(p[3])
    ELSE IF p[2] # 0 THEN 14 + BitLen(p[2])
    ELSE BitLen(p[1])

\* A Number holds 53 significant bits: a product of more bits is rounded to
\* the nearest multiple of 2^e, ties to even.  Only the low limbs are kept,
\* which is all that ToInt32 reads.
RoundUp(limb, unit) ==
    \/ 2 * (limb % unit) > unit
    \/ 2 * (limb % unit) = unit /\ ((limb \div unit) % 2) = 1

\* the lowest limb rounded to a multiple of unit (a carry is left in it)
RoundLimb(limb, unit) ==
    (limb - (limb % unit)) + (IF unit > 1 /\ RoundUp(limb, unit) THEN unit ELSE 0)

Carry(p, r0) ==
    <<r0 % L14,
      (p[2] + (r0 \div L14)) % L14,
      (p[3] + ((p[2] + (r0 \div L14)) \div L14)) % L14>>

RoundTo(p, bits) == Carry(p, RoundLimb(p[1], Pow2(IF bits > 53 THEN bits - 53 ELSE 0)))

RoundDouble(p) == RoundTo(p, LimbBits(p))

\* the low 32 bits of three 14-bit limbs
LimbsToWord(r) ==
    Word((r[2] \div 4) + ((r[3] % 16) * 4096), r[1] + ((r[2] % 4) * L14))

\* ToUint32(x * 0x45d9f3b), x a signed 32-bit word, the product a double
WithSign(a, w) == IF IsNeg32(a) THEN Neg32(w) ELSE w

MulHash(a) == WithSign(a, LimbsToWord(RoundDouble(MulLimbs(MagLimbs(a)))))

(***************************************************************************)
(* SeededPRNG.generate: the hash of (seed, index).                         *)
(***************************************************************************)
\* value ^ (value >>> k)
XorShift(value, k) == Xor32(value, Shr32(value, k))

generate(seed, index) ==
    XorShift(MulHash(XorShift(MulHash(XorShift(Xor32(seed, Word(0, index)), 21)), 15)), 13)

\* SeededPRNG.toFloat(number) * 100 < 50
BelowHalf(r) == r.hi < 32768

(***************************************************************************)
(* Date.UTC(year, month, 1): the start of a month.  A month is counted     *)
(* from year 0 (year * 12 + month index).                                  *)
(***************************************************************************)
DaysFromCivil(year, mon) ==
    LET y   == IF mon <= 1 THEN year - 1 ELSE year
        era == y \div 400
        yoe == y - (era * 400)
        mp  == (mon + 10) % 12
        doy == ((153 * mp) + 2) \div 5
        doe == (yoe * 365) + (yoe \div 4) - (yoe \div 100) + doy
    IN (era * 146097) + doe - 719468

EpochDays(month) == DaysFromCivil(month \div 12, month % 12)

\* ToInt32(Date.UTC(...)): the days times 86400000 ms, modulo 2^32
EpochWord(month) ==
    LET d  == EpochDays(month)
        p0 == d * 23552
        p1 == (d * 1318) + (p0 \div W16)
    IN Word(p1 % W16, p0 % W16)

(***************************************************************************)
(* Values of the program that are not numbers of the model.                *)
(*   NoNumber: undefined / NaN where the code expects a number             *)
(*   NoCat:    an entry without a category field                           *)
(*   <<>>:     an undefined path                                           *)
(***************************************************************************)
NoNumber == 0 - 1
NoCat == 0 - 1
NullSeg == [null |-> TRUE]
IsNull(s) == "null" \in DOMAIN s

\* CAT
CAT_ADVERTS == 0
CAT_IDENTS == 1
CAT_MUSIC == 2
CAT_NEWS == 3
CAT_DJSOLO == 5

getCategoryId(categoryValue) ==
    CASE categoryValue = CAT_ADVERTS -> "adverts"
      [] categoryValue = CAT_IDENTS -> "id"
      [] categoryValue = CAT_MUSIC -> "track"
      [] categoryValue = CAT_DJSOLO -> "mono_solo"
      [] OTHER -> "undefined"

DEFAULT_DJ_INTRO_OFFSET_MS == 4000
DEFAULT_DJ_OUTRO_OFFSET_MS == 4000

(***************************************************************************)
(* Station metadata (station.json) and the shared radio.json lists.        *)
(* An entry of a file group: path (a sequence of path components),         *)
(* duration and audibleDuration in seconds (0: no audibleDuration),        *)
(* category (NoCat: none), attachments.intro (<<>>: none) and the offsets  *)
(* of the markers dj intro_start and outro_end in ms (0: no marker).       *)
(* A voiceover entry: path, duration and offset (0 until it is chosen).    *)
(* A list that may be missing is [present, items].                         *)
(***************************************************************************)
Entry(name, dur, aud, cat, intro, introStart, outroEnd) ==
    [path |-> name, duration |-> dur, audibleDuration |-> aud, category |-> cat,
     intro |-> intro, introStart |-> introStart, outroEnd |-> outroEnd]

Plain(name, dur) == Entry(<<name>>, dur, 0, NoCat, <<>>, 0, 0)
Common(name, dur) == Entry(<<"common", name>>, dur, 0, NoCat, <<>>, 0, 0)

\* what Object.assign({category}, undefined) yields: a category and nothing else
UndefEntry == Entry(<<>>, NoNumber, 0, NoCat, <<>>, 0, 0)

List(items) == [present |-> TRUE, items |-> items]
Absent == [present |-> FALSE, items |-> <<>>]

\* radioMeta.common: the lists of radio.json that stations refer to by id
RadioCommon(listId) ==
    CASE listId = "ads_a" -> <<Common("ad_a0", 50), Common("ad_a1", 100)>>
      [] listId = "ads_b" -> <<Common("ad_b0", 50)>>
      [] OTHER -> <<>>

StationMetadata(type, track, id, solo, adverts, commonAdverts, toAdverts) ==
    [type |-> type, track |-> track, id |-> id, mono_solo |-> solo,
     adverts |-> adverts, commonAdverts |-> commonAdverts, to_adverts |-> toAdverts]

(***************************************************************************)
(* IndexDrawPool and IndexDrawPoolManager.  A missing index (null) is      *)
(* NoNumber.  The manager is a function from the ids in use to pools.      *)
(***************************************************************************)
RemoveAt(seq, i) == SubSeq(seq, 1, i - 1) \o SubSeq(seq, i + 1, Len(seq))

Min(x, y) == IF x < y THEN x ELSE y

IndexDrawPool(sourceSize, dontRepeatFor) ==
    [draw |-> [i \in 1..sourceSize |-> i - 1],
     discard |-> <<>>,
     dontRepeatFor |-> dontRepeatFor]

\* IndexDrawPool.next that hands an index back one draw too early
PoolNextEarlyReturn(pool, randomInteger) ==
    IF Len(pool.draw) = 0 THEN [pool |-> pool, selected |-> NoNumber]
    ELSE
      LET randomIndex == Mod32(randomInteger, Len(pool.draw))
          selected    == pool.draw[randomIndex + 1]
          draw1       == RemoveAt(pool.draw, randomIndex + 1)
          discard1    == Append(pool.discard, selected)
      IN IF Len(discard1) >= pool.dontRepeatFor
         THEN [pool |-> [pool EXCEPT !.draw = Append(draw1, Head(discard1)),
                                     !.discard = Tail(discard1)],
               selected |-> selected]
         ELSE [pool |-> [pool EXCEPT !.draw = draw1, !.discard = discard1],
               selected |-> selected]

\* IndexDrawPool.next: [pool, selected]
PoolNext(pool, randomInteger) ==
    IF Len(pool.draw) = 0 THEN [pool |-> pool, selected |-> NoNumber]
    ELSE
      LET randomIndex == Mod32(randomInteger, Len(pool.draw))
          selected    == pool.draw[randomIndex + 1]
          draw1       == RemoveAt(pool.draw, randomIndex + 1)
          discard1    == Append(pool.discard, selected)
      IN IF Len(discard1) > pool.dontRepeatFor
         THEN [pool |-> [pool EXCEPT !.draw = Append(draw1, Head(discard1)),
                                     !.discard = Tail(discard1)],
               selected |-> selected]
         ELSE [pool |-> [pool EXCEPT !.draw = draw1, !.discard = discard1],
               selected |-> selected]

DefaultDontRepeatFor == 8

NoPools == [id \in {} |-> 0]

MapSet(m, k, v) == [x \in (DOMAIN m) \cup {k} |-> IF x = k THEN v ELSE m[x]]

\* nextUniqueIndex that creates the pool with dontRepeatFor as requested
nextUniqueIndexUnclamped(pools, id, sourceSize, randomInteger, dontRepeatFor) ==
    LET map1 == IF id \in DOMAIN pools THEN pools
                ELSE MapSet(pools, id, IndexDrawPool(sourceSize, dontRepeatFor))
        r    == PoolNext(map1[id], randomInteger)
    IN [pools |-> MapSet(map1, id, r.pool), selected |-> r.selected]

\* IndexDrawPoolManager.nextUniqueIndex: [pools, selected]
nextUniqueIndex(pools, id, sourceSize, randomInteger, dontRepeatFor) ==
    LET map1 == IF id \in DOMAIN pools THEN pools
                ELSE MapSet(pools, id,
                            IndexDrawPool(sourceSize, Min(dontRepeatFor, sourceSize - 1)))
        r    == PoolNext(map1[id], randomInteger)
    IN [pools |-> MapSet(map1, id, r.pool), selected |-> r.selected]

\* list[index] of a JavaScript array: undefined when index is null
At(items, index) == IF index = NoNumber THEN UndefEntry ELSE items[index + 1]

(***************************************************************************)
(* The stations of the model (bounded inputs, see Stations below) and the  *)
(* state: the station description in use, the wall clock's month, and the  *)
(* live station object.                                                    *)
(***************************************************************************)
Voiceover(name, dur) == [path |-> <<name>>, duration |-> dur, offset |-> 0]

Stations ==
    << StationMetadata("static",
                       List(<<Plain("t0", 100), Plain("t1", 200), Plain("t2", 150)>>),
                       Absent, Absent, Absent, Absent, Absent),
       StationMetadata("talkshow",
                       List(<<Plain("t0", 100), Plain("t1", 150)>>),
                       List(<<Plain("id0", 50), Plain("id1", 50)>>),
                       Absent, Absent, List(<<"ads_a">>), Absent),
       StationMetadata("dynamic",
                       List(<<Entry(<<"t0">>, 100, 0, NoCat,
                                    <<Voiceover("in0", 3), Voiceover("in1", 2)>>, 1000, 90000),
                              Entry(<<"t1">>, 150, 100, NoCat, <<>>, 0, 0),
                              Plain("t2", 100)>>),
                       List(<<Plain("id0", 50), Plain("id1", 50)>>),
                       List(<<Plain("solo0", 50), Plain("solo1", 50)>>),
                       List(<<Plain("ad0", 50)>>), List(<<"ads_a">>),
                       List(<<Voiceover("to0", 3), Voiceover("to1", 2), Voiceover("to2", 4)>>)) >>

VARIABLES cfg, month, station, last, limitChanges, onAir, tally, chain, other, shared, alone,
          played, pool, drawn, manager, lastDraw, page, gen, heap, poolClone,
          tuner

\* stations beside those: a longer track list, file groups that are
\* missing or empty (the track list too), a station.json without a type,
\* and a track entry that has a category field of its own
MoreStations ==
    << StationMetadata("dynamic",
                       List(<<Plain("t0", 100), Plain("t1", 100), Plain("t2", 100),
                              Plain("t3", 100), Plain("t4", 100)>>),
                       List(<<Plain("id0", 50)>>),
                       List(<<Plain("solo0", 50), Plain("solo1", 50)>>),
                       List(<<Plain("ad0", 50)>>), Absent,
                       List(<<Voiceover("to0", 3)>>)),
       StationMetadata("talkshow",
                       List(<<Plain("t0", 100), Plain("t1", 150)>>),
                       List(<<>>),
                       Absent, List(<<Plain("ad0", 50)>>), Absent, Absent),
       StationMetadata("talkshow",
                       List(<<Plain("t0", 100), Plain("t1", 150)>>),
                       Absent, Absent, Absent, Absent, Absent),
       StationMetadata("dynamic",
                       List(<<Plain("t0", 100), Plain("t1", 150), Plain("t2", 100)>>),
                       Absent, Absent, Absent, Absent, Absent),
       StationMetadata("dynamic",
                       List(<<Plain("t0", 100), Plain("t1", 150), Plain("t2", 100)>>),
                       List(<<>>), List(<<>>), List(<<>>), Absent, List(<<>>)),
       StationMetadata("static", List(<<>>), Absent, Absent, Absent, Absent, Absent),
       StationMetadata("", List(<<Plain("t0", 100), Plain("t1", 150)>>),
                       List(<<Plain("id0", 50)>>), List(<<Plain("solo0", 50)>>),
                       List(<<Plain("ad0", 50)>>), Absent, Absent),
       StationMetadata("static",
                       List(<<Entry(<<"t0">>, 100, 0, CAT_ADVERTS, <<>>, 0, 0),
                              Plain("t1", 150)>>),
                       Absent, Absent, Absent, Absent, Absent) >>

AllStations == Stations \o MoreStations

Meta == AllStations[cfg]

(***************************************************************************)
(* SeededPRNG.  The seed is Date.UTC of a month and is held as that month. *)
(* The months of the model run from FirstMonth (year * 12 + month index),  *)
(* and a live generator is not advanced past MaxIndex.                     *)
(***************************************************************************)
FirstMonth == (2024 * 12) + 11
MaxMonths == 3
MaxIndex == 8

SeededPRNG(seed) == [seed |-> seed, index |-> 0]

\* the values of generate() for the seeds and indexes of the model, computed once
LastMonth == FirstMonth + MaxMonths
TableIndexes == MaxIndex + 4

GenerateTable ==
    [m \in FirstMonth..LastMonth |->
        [i \in 0..TableIndexes |-> generate(EpochWord(m), i)]]

\* SeededPRNG.generate of a generator object
PRNGGenerate(prng) ==
    IF prng.seed >= FirstMonth /\ prng.seed <= LastMonth /\ prng.index <= TableIndexes
    THEN GenerateTable[prng.seed][prng.index]
    ELSE generate(EpochWord(prng.seed), prng.index)

\* SeededPRNG.clone
PRNGClone(prng) == [SeededPRNG(prng.seed) EXCEPT !.index = prng.index]

\* next() that increments the index before it generates
PRNGNextPreIncrement(prng) ==
    [PRNG |-> [prng EXCEPT !.index = prng.index + 1],
     value |-> PRNGGenerate([prng EXCEPT !.index = prng.index + 1])]

\* SeededPRNG.next: [PRNG, value]
PRNGNext(prng) ==
    [PRNG |-> [prng EXCEPT !.index = prng.index + 1],
     value |-> PRNGGenerate(prng)]

(***************************************************************************)
(* RadioStation: state, resetState, clone.                                 *)
(***************************************************************************)
DefaultHistoryLimit == 2

NoCache == [adverts |-> Absent]

\* RadioStation.startTimestamp: the start of the clock's current month
startTimestamp == month

\* resetState that leaves the draw pools of the previous run in place
resetStateKeepingPools(st) ==
    [st EXCEPT !.accumulatedTime = 0,
               !.segmentIndex = 0,
               !.trackIndex = 0,
               !.segmentHistory = <<>>,
               !.PRNG = SeededPRNG(month)]

\* resetState that reseeds the generator and leaves its index where it was
resetStateKeepingIndex(st) ==
    [st EXCEPT !.accumulatedTime = 0,
               !.segmentIndex = 0,
               !.trackIndex = 0,
               !.segmentHistory = <<>>,
               !.PRNG = [seed |-> month, index |-> st.PRNG.index],
               !.indexDrawPools = NoPools]

\* resetState that leaves the history of the previous run in place
resetStateKeepingHistory(st) ==
    [st EXCEPT !.accumulatedTime = 0,
               !.segmentIndex = 0,
               !.trackIndex = 0,
               !.PRNG = SeededPRNG(month),
               !.indexDrawPools = NoPools]

resetState(st) ==
    [st EXCEPT !.accumulatedTime = 0,
               !.segmentIndex = 0,
               !.trackIndex = 0,
               !.segmentHistory = <<>>,
               !.PRNG = SeededPRNG(startTimestamp),
               !.indexDrawPools = NoPools]

\* the fields of a station object before resetState has run
Uninitialised ==
    [accumulatedTime |-> NoNumber, segmentIndex |-> NoNumber, trackIndex |-> NoNumber,
     segmentHistory |-> <<>>, PRNG |-> SeededPRNG(0), indexDrawPools |-> NoPools,
     historyLimit |-> DefaultHistoryLimit, commonListCache |-> NoCache]

\* the constructor: the field initialisers, then resetState()
NewStation == resetState(Uninitialised)

\* IndexDrawPoolManager.clone / IndexDrawPool.clone: a copy of every pool
ClonePools(pools) ==
    [id \in DOMAIN pools |->
        [draw |-> pools[id].draw, discard |-> pools[id].discard,
         dontRepeatFor |-> pools[id].dontRepeatFor]]

\* clone that hands the draw pools over by reference
cloneSharingPools(st, keepState) ==
    [station |-> [Uninitialised EXCEPT !.historyLimit = st.historyLimit,
                                       !.commonListCache = st.commonListCache,
                                       !.segmentHistory = st.segmentHistory,
                                       !.accumulatedTime = st.accumulatedTime,
                                       !.segmentIndex = st.segmentIndex,
                                       !.trackIndex = st.trackIndex,
                                       !.PRNG = st.PRNG,
                                       !.indexDrawPools = st.indexDrawPools],
     shares |-> IF keepState THEN {"commonListCache", "indexDrawPools"}
                ELSE {"commonListCache"}]

\* clone that hands the history over by reference
cloneSharingHistory(st, keepState) ==
    [station |-> [Uninitialised EXCEPT !.historyLimit = st.historyLimit,
                                       !.commonListCache = st.commonListCache,
                                       !.segmentHistory = st.segmentHistory,
                                       !.accumulatedTime = st.accumulatedTime,
                                       !.segmentIndex = st.segmentIndex,
                                       !.trackIndex = st.trackIndex,
                                       !.PRNG = st.PRNG,
                                       !.indexDrawPools = ClonePools(st.indexDrawPools)],
     shares |-> IF keepState THEN {"commonListCache", "segmentHistory"}
                ELSE {"commonListCache"}]

\* RadioStation.clone: the new object, and the fields whose container it
\* shares with the original (assigned by reference, not copied)
clone(st, keepState) ==
    LET base == [Uninitialised EXCEPT !.historyLimit = st.historyLimit,
                                      !.commonListCache = st.commonListCache]
    IN [station |->
            IF keepState
            THEN [base EXCEPT !.segmentHistory = st.segmentHistory,
                              !.accumulatedTime = st.accumulatedTime,
                              !.segmentIndex = st.segmentIndex,
                              !.trackIndex = st.trackIndex,
                              !.PRNG = [seed |-> st.PRNG.seed, index |-> st.PRNG.index],
                              !.indexDrawPools = ClonePools(st.indexDrawPools)]
            ELSE base,
        shares |-> {"commonListCache"}]

\* the containers resetState replaces by new ones
ResetReplaces == {"segmentHistory", "PRNG", "indexDrawPools"}

\* what the original sees after the clone has run: the shared containers
\* hold what the clone wrote
WriteBack(orig, sim, shares) ==
    [f \in DOMAIN orig |-> IF f \in shares THEN sim[f] ELSE orig[f]]

(***************************************************************************)
(* Helpers of the selection step.  An operation that can throw returns     *)
(* err: "" or the name of the error; the station it returns is the object  *)
(* as the throw left it.                                                   *)
(***************************************************************************)
DataPath == "data"
StationPath == "station"

\* StationMeta.resolveObjectPath: a copy of the object with an absolute path
resolveObjectPath(object) ==
    [object EXCEPT !.path = IF object.path[1] = "common"
                            THEN <<DataPath>> \o object.path
                            ELSE <<DataPath, StationPath>> \o object.path]

\* Object.assign({ category }, segmentInfo): the entry's own fields are copied
\* over the new object, its category included when it has one
setSegmentCategory(segmentInfo, category) ==
    IF segmentInfo.category # NoCat THEN segmentInfo
    ELSE [segmentInfo EXCEPT !.category = category]

\* the duration alone, audibleDuration ignored
DurationOnly(segmentInfo) == segmentInfo.duration

\* segmentInfo.audibleDuration || segmentInfo.duration
EffectiveDuration(segmentInfo) ==
    IF segmentInfo.audibleDuration # 0 THEN segmentInfo.audibleDuration
    ELSE segmentInfo.duration

\* x + y on Numbers, NaN when either is undefined or NaN
Plus(x, y) == IF x = NoNumber \/ y = NoNumber THEN NoNumber ELSE x + y

\* RadioStation.getCommonList("adverts"): [list, st]
getCommonList(st) ==
    LET cached == st.commonListCache.adverts
        own    == IF Meta.adverts.present THEN Meta.adverts.items ELSE <<>>
        ids    == IF Meta.commonAdverts.present THEN Meta.commonAdverts.items ELSE <<>>
        Concat[i \in 0..Len(ids)] ==
            IF i = 0 THEN own ELSE Concat[i - 1] \o RadioCommon(ids[i])
        resultList == Concat[Len(ids)]
    IN IF cached.present /\ Len(cached.items) # 0
       THEN [list |-> cached.items, st |-> st]
       ELSE [list |-> resultList,
             st |-> [st EXCEPT !.commonListCache.adverts = List(resultList)]]

Ok(st, value) == [st |-> st, ret |-> value, err |-> ""]
Throw(st, error) == [st |-> st, ret |-> NullSeg, err |-> error]

\* draws randomInteger from the pool id of the station for a list
Drawn(st, items, r) ==
    [st |-> [st EXCEPT !.indexDrawPools = r.pools], entry |-> At(items, r.selected)]

\* a draw that avoids only the index drawn last
DrawAvoidingLastOnly(st, id, items, randomInteger) ==
    Drawn(st, items, nextUniqueIndex(st.indexDrawPools, id, Len(items), randomInteger, 1))

Draw(st, id, items, randomInteger) ==
    Drawn(st, items, nextUniqueIndex(st.indexDrawPools, id, Len(items), randomInteger,
                                     DefaultDontRepeatFor))

\* setSegmentCategory on the entry drawn
Categorised(d, category) == Ok(d.st, setSegmentCategory(d.entry, category))

(***************************************************************************)
(* The selection step and the peeks call each other.  depth bounds the     *)
(* nesting of simulated stations: a peek that would nest deeper is the     *)
(* unbounded recursion that ends in a RangeError (call stack exhausted).   *)
(***************************************************************************)
RECURSIVE peekSegment(_, _, _)
RECURSIVE impl_nextSegment(_, _)
RECURSIVE nextSegmentInfo(_, _, _, _)
RECURSIVE simulate(_, _, _)
RECURSIVE impl_resolveSegment(_, _, _)
RECURSIVE newPlayableSegment(_, _, _)

\* a fixed playlist played in the order of the "track" draw pool
StaticNextShuffled(st) ==
    Categorised(Draw(st, "track", Meta.track.items, PRNGGenerate(st.PRNG)), CAT_MUSIC)

\* StaticStation.impl_nextSegment
StaticNext(st) ==
    LET segmentList == Meta.track.items
    IN Ok(st, setSegmentCategory(
                 IF Len(segmentList) = 0 THEN UndefEntry
                 ELSE segmentList[(st.segmentIndex % Len(segmentList)) + 1],
                 CAT_MUSIC))

\* getTrack that indexes the playlist by segmentIndex
TalkshowGetTrackBySegmentIndex(st) ==
    LET segmentList == Meta.track.items
    IN IF Len(segmentList) = 0 THEN UndefEntry
       ELSE segmentList[(st.segmentIndex % Len(segmentList)) + 1]

\* TalkshowStation.getTrack
TalkshowGetTrack(st) ==
    LET segmentList == Meta.track.items
    IN IF Len(segmentList) = 0 THEN UndefEntry
       ELSE segmentList[(st.trackIndex % Len(segmentList)) + 1]

\* TalkshowStation.getRandomTransition: ret is NullSeg when there is no list
TalkshowTransitions(st, currentCategory) ==
    IF currentCategory = CAT_ADVERTS \/ currentCategory = CAT_NEWS
    THEN [st |-> st, list |-> Meta.id.items, category |-> CAT_IDENTS]
    ELSE getCommonList(st) @@ [category |-> CAT_ADVERTS]

TalkshowDraw(t, rnd) ==
    Categorised(Draw([t.st EXCEPT !.PRNG = rnd.PRNG], getCategoryId(t.category),
                     t.list, rnd.value),
                t.category)

TalkshowDrawFrom(t) ==
    IF Len(t.list) = 0 THEN Ok(t.st, NullSeg) ELSE TalkshowDraw(t, PRNGNext(t.st.PRNG))

TalkshowGetRandomTransition(st, currentCategory) ==
    TalkshowDrawFrom(TalkshowTransitions(st, currentCategory))

\* DynamicStation.getRandomTrack
getRandomTrack(st, randNum) == Draw(st, "track", Meta.track.items, randNum)

\* DynamicStation.getRandomTransition
DynamicTransitions(st, select) ==
    IF select = CAT_ADVERTS THEN getCommonList(st)
    ELSE [list |-> Meta.mono_solo.items, st |-> st]

DynamicDrawFrom(t, select, randNum) ==
    Categorised(Draw(t.st, getCategoryId(select), t.list, randNum), select)

DynamicSelect(st, select, randNum) ==
    IF select # CAT_ADVERTS /\ ~Meta.mono_solo.present THEN Throw(st, "TypeError")
    ELSE DynamicDrawFrom(DynamicTransitions(st, select), select, randNum)

DynamicGetRandomTransition(st, randNum) ==
    DynamicSelect(st, IF randNum.lo % 2 = 0 THEN CAT_DJSOLO ELSE CAT_ADVERTS, randNum)

\* DynamicStation.getRandomId: ret is NullSeg when there is no ident list
getRandomId(st, randNum) ==
    IF ~Meta.id.present \/ Len(Meta.id.items) = 0 THEN Ok(st, NullSeg)
    ELSE Categorised(Draw(st, getCategoryId(CAT_IDENTS), Meta.id.items, randNum),
                     CAT_IDENTS)

\* peekSegment(0)?.category
CategoryOf(seg) == IF IsNull(seg) THEN NoCat ELSE seg.category

\* TalkshowStation.impl_nextSegment
TalkshowTrack(st) == Ok(st, setSegmentCategory(TalkshowGetTrack(st), CAT_MUSIC))

TalkshowAfterTransition(transition) ==
    IF ~IsNull(transition.ret) THEN transition ELSE TalkshowTrack(transition.st)

\* a talkshow that takes a transition after an ident as well
TalkshowAfterPeekAnyCategory(pk) ==
    IF pk.err # "" THEN Throw(pk.st, pk.err)
    ELSE IF CategoryOf(pk.ret) \in {CAT_MUSIC, CAT_NEWS, CAT_ADVERTS, CAT_IDENTS}
    THEN TalkshowAfterTransition(TalkshowGetRandomTransition(pk.st, CategoryOf(pk.ret)))
    ELSE TalkshowTrack(pk.st)

TalkshowAfterPeek(pk) ==
    IF pk.err # "" THEN Throw(pk.st, pk.err)
    ELSE IF CategoryOf(pk.ret) \in {CAT_MUSIC, CAT_NEWS, CAT_ADVERTS}
    THEN TalkshowAfterTransition(TalkshowGetRandomTransition(pk.st, CategoryOf(pk.ret)))
    ELSE TalkshowTrack(pk.st)

TalkshowNext(st, depth) == TalkshowAfterPeek(peekSegment(st, 0, depth))

\* DynamicStation.impl_nextSegment
DynamicChoice(st, currentCategory, randNum) ==
    IF currentCategory = CAT_ADVERTS THEN getRandomId(st, randNum)
    ELSE IF currentCategory = CAT_MUSIC /\ BelowHalf(randNum)
    THEN DynamicGetRandomTransition(st, randNum)
    ELSE Ok(st, NullSeg)

DynamicAfterChoice(chosen, randNum) ==
    IF chosen.err # "" \/ ~IsNull(chosen.ret) THEN chosen
    ELSE Categorised(getRandomTrack(chosen.st, randNum), CAT_MUSIC)

DynamicAfterPeek(pk, randNum) ==
    IF pk.err # "" THEN Throw(pk.st, pk.err)
    ELSE DynamicAfterChoice(DynamicChoice(pk.st, CategoryOf(pk.ret), randNum), randNum)

DynamicAfterRandom(st, rnd, depth) ==
    DynamicAfterPeek(peekSegment([st EXCEPT !.PRNG = rnd.PRNG], 0, depth), rnd.value)

DynamicNext(st, depth) == DynamicAfterRandom(st, PRNGNext(st.PRNG), depth)

impl_nextSegment(st, depth) ==
    CASE Meta.type = "static" -> StaticNext(st)
      [] Meta.type = "talkshow" -> TalkshowNext(st, depth)
      [] OTHER -> DynamicNext(st, depth)

\* n calls of _nextSegmentInfo() on a simulated station: the last selection
simulateRest(r, n, depth) ==
    IF r.err # "" \/ n = 1 THEN r ELSE simulate(r.st, n - 1, depth)

simulate(st, n, depth) ==
    IF n = 0 THEN Ok(st, NullSeg)
    ELSE simulateRest(nextSegmentInfo(st, "raw", 0, depth), n, depth)

\* what the caller holds once the simulated station has run
Peeked(st, r, shares) ==
    [st |-> WriteBack(st, r.st, shares), ret |-> r.ret, err |-> r.err]

PeekReplay(st, c, n, depth) ==
    Peeked(st, simulate(resetState(c.station), n, depth), c.shares \ ResetReplaces)

\* a forward peek that simulates one selection more than it was asked for
PeekAheadOneFurther(st, c, n, depth) ==
    Peeked(st, simulate(c.station, n + 1, depth), c.shares)

PeekAhead(st, c, n, depth) == Peeked(st, simulate(c.station, n, depth), c.shares)

\* RadioStation.peekSegment: ret is the SegmentInfo or NullSeg, st the station
\* as the peek left it
peekSegment(st, segmentOffset, depth) ==
    IF segmentOffset <= 0
    THEN LET targetIndex == st.segmentIndex + segmentOffset
             historyIndex == 0 - segmentOffset
         IN IF targetIndex <= 0 THEN Ok(st, NullSeg)
            ELSE IF historyIndex < Len(st.segmentHistory)
            THEN Ok(st, st.segmentHistory[historyIndex + 1])
            ELSE IF depth = 0 THEN Throw(st, "RangeError")
            ELSE PeekReplay(st, clone(st, FALSE), targetIndex + 1, depth - 1)
    ELSE IF depth = 0 THEN Throw(st, "RangeError")
    ELSE PeekAhead(st, clone(st, TRUE), segmentOffset, depth - 1)

\* DynamicStation.impl_resolveSegment: ret is the list of voiceovers.  An
\* offset is held in thousandths (1000 * offset).
SelectedIntro(segmentInfo, randomInteger) ==
    [resolveObjectPath(segmentInfo.intro[Mod32(randomInteger, Len(segmentInfo.intro)) + 1])
        EXCEPT !.offset = IF segmentInfo.introStart # 0
                          THEN segmentInfo.introStart
                          ELSE DEFAULT_DJ_INTRO_OFFSET_MS]

WithIntro(st, segmentInfo, rnd) ==
    [st |-> [st EXCEPT !.PRNG = rnd.PRNG],
     ret |-> <<SelectedIntro(segmentInfo, rnd.value)>>]

ResolveIntro(st, segmentInfo) ==
    IF Len(segmentInfo.intro) > 0 THEN WithIntro(st, segmentInfo, PRNGNext(st.PRNG))
    ELSE [st |-> st, ret |-> <<>>]

OutroWindowEnd(segmentInfo) ==
    IF segmentInfo.outroEnd # 0 THEN segmentInfo.outroEnd
    ELSE segmentInfo.duration - DEFAULT_DJ_OUTRO_OFFSET_MS

WithOutro(d, voiceovers, segmentInfo) ==
    IF d.entry.path = <<>> THEN [st |-> d.st, ret |-> voiceovers, err |-> "TypeError"]
    ELSE [st |-> d.st,
          ret |-> Append(voiceovers,
                         [resolveObjectPath(d.entry) EXCEPT
                             !.offset = OutroWindowEnd(segmentInfo) - d.entry.duration]),
          err |-> ""]

DrawOutro(st, rnd) ==
    Draw([st EXCEPT !.PRNG = rnd.PRNG], "to_ad", Meta.to_adverts.items, rnd.value)

ResolveOutro(i, nextCategory, segmentInfo) ==
    IF nextCategory = CAT_ADVERTS /\ Meta.to_adverts.present
    THEN WithOutro(DrawOutro(i.st, PRNGNext(i.st.PRNG)), i.ret, segmentInfo)
    ELSE [st |-> i.st, ret |-> i.ret, err |-> ""]

ResolveAfterPeek(pk, segmentInfo) ==
    IF pk.err # "" THEN [st |-> pk.st, ret |-> <<>>, err |-> pk.err]
    ELSE ResolveOutro(ResolveIntro(pk.st, segmentInfo), CategoryOf(pk.ret), segmentInfo)

impl_resolveSegment(st, segmentInfo, depth) ==
    IF Meta.type \in {"static", "talkshow"} THEN [st |-> st, ret |-> <<>>, err |-> ""]
    ELSE ResolveAfterPeek(peekSegment(st, 1, depth), segmentInfo)

\* RadioStation._newPlayableSegment: ret is the PlayableSegment
StartOf(st) ==
    <<startTimestamp,
      IF st.accumulatedTime = NoNumber THEN NoNumber ELSE st.accumulatedTime * 1000>>

Playable(r, segment, stamp) ==
    IF r.err # "" THEN Throw(r.st, r.err)
    ELSE Ok(r.st, [info |-> segment, startTimestamp |-> stamp, voiceovers |-> r.ret])

newPlayableSegment(st, segmentInfo, depth) ==
    IF segmentInfo.path = <<>> THEN Throw(st, "TypeError")
    ELSE Playable(impl_resolveSegment(st, resolveObjectPath(segmentInfo), depth),
                  resolveObjectPath(segmentInfo), StartOf(st))

\* RadioStation._nextSegmentInfo(onAfterRegister).  mode names the callback:
\* "raw" none, "next" that of nextSegment(), "sync" that of getSyncedSegment()
\* with now = Date.now() - startTimestamp.
Register(st, segmentInfo) ==
    [st EXCEPT !.segmentHistory =
        SubSeq(<<segmentInfo>> \o st.segmentHistory, 1,
               Min(Len(st.segmentHistory) + 1, st.historyLimit))]

onAfterRegister(st, segmentInfo, mode, now, depth) ==
    LET time == Plus(st.accumulatedTime, EffectiveDuration(segmentInfo))
    IN IF mode = "raw" THEN Ok(st, segmentInfo)
       ELSE IF mode = "next" \/ (time # NoNumber /\ time * 1000 > now)
       THEN newPlayableSegment(st, segmentInfo, depth)
       ELSE Ok(st, NullSeg)

UpdateState(st, segmentInfo) ==
    [st EXCEPT !.trackIndex = IF segmentInfo.category = CAT_MUSIC
                              THEN st.trackIndex + 1 ELSE st.trackIndex,
               !.segmentIndex = st.segmentIndex + 1,
               !.accumulatedTime = Plus(st.accumulatedTime,
                                        EffectiveDuration(segmentInfo))]

AfterCallback(cb, segmentIndex, segmentInfo) ==
    IF cb.err # "" THEN cb
    ELSE Ok(UpdateState([cb.st EXCEPT !.PRNG.index = segmentIndex], segmentInfo), cb.ret)

AfterRegister(st, segmentInfo, mode, now, depth) ==
    AfterCallback(onAfterRegister(st, segmentInfo, mode, now, depth),
                  st.PRNG.index, segmentInfo)

AfterSelection(sel, mode, now, depth) ==
    IF sel.err # "" THEN sel
    ELSE AfterRegister(Register(sel.st, sel.ret), sel.ret, mode, now, depth)

nextSegmentInfo(st, mode, now, depth) ==
    AfterSelection(impl_nextSegment(st, depth), mode, now, depth)

MaxDepth == 3

\* nextSegment without the restore of PRNG.index after the callback: the
\* generator stays advanced by the values drawn for the voiceovers
nextSegmentKeepingDraws(st) ==
    LET r == nextSegmentInfo(st, "next", 0, MaxDepth)
    IN IF r.err # "" THEN r
       ELSE [r EXCEPT !.st.PRNG.index = r.st.PRNG.index + Len(r.ret.voiceovers)]

\* RadioStation.nextSegment
nextSegment(st) == nextSegmentInfo(st, "next", 0, MaxDepth)

MaxSyncSteps == 12

\* the loop of getSyncedSegment: it ends when the callback returns a segment
RECURSIVE syncLoop(_, _, _)
syncRest(r, now, steps) ==
    IF r.err # "" \/ ~IsNull(r.ret) THEN r ELSE syncLoop(r.st, now, steps - 1)

syncLoop(st, now, steps) ==
    IF steps = 0 THEN Throw(st, "Diverges")
    ELSE syncRest(nextSegmentInfo(st, "sync", now, MaxDepth), now, steps)

\* getSyncedSegment that stops at a segment ending exactly at now
getSyncedSegmentEndingAtNow(st, now) == syncLoop(resetState(st), now - 1, MaxSyncSteps)

\* getSyncedSegment that goes on from the state the station is in
getSyncedSegmentWithoutReset(st, now) == syncLoop(st, now, MaxSyncSteps)

\* RadioStation.getSyncedSegment, with now = Date.now() - startTimestamp
getSyncedSegment(st, now) == syncLoop(resetState(st), now, MaxSyncSteps)

\* the historyLimit setter
setHistoryLimit(st, value) ==
    [st EXCEPT !.historyLimit = value,
               !.segmentHistory = SubSeq(st.segmentHistory, 1,
                                         Min(value, Len(st.segmentHistory)))]

(***************************************************************************)
(* The bounds of the model and the state machine of one live station.      *)
(*   last   the last call made on the station and what it returned         *)
(*   onAir  the PlayableSegment the station produced last (NullSeg: none   *)
(*          since its last resetState())                                   *)
(*   chain  "reset" / "sync": the station was reset / synced and has since *)
(*          only been stepped and peeked, in the same month and without a  *)
(*          throw; "none" otherwise                                        *)
(*   tally  while chain is "reset" or "sync": the nextSegment() calls that *)
(*          returned since the reset or sync, those that returned MUSIC,   *)
(*          and the sum of the lengths of the segments they returned       *)
(*   played the indexes the station drew from its "track" pool since its   *)
(*          last resetState(), in order; after getSyncedSegment(), those   *)
(*          the pool still holds back                                      *)
(***************************************************************************)
MaxTime == 2
MaxSegments == 5
MaxPeek == 2
MaxLimit == 2
MaxLimitChanges == 1

\* the clock readings of a month, in ms since its start
NowValues == {0} \cup {(((2 * u) - 1) * 100000) - d : u \in 1..MaxTime, d \in {0, 1}}

Call(op, arg, r) == [op |-> op, arg |-> arg, ret |-> r.ret, err |-> r.err]

\* no second instance
NoStation == [none |-> TRUE]

NoTally == [segments |-> 0, music |-> 0, time |-> 0]

\* a pool built with these arguments, before its first next()
NoneDrawn(sourceSize, dontRepeatFor) ==
    [sourceSize |-> sourceSize, dontRepeatFor |-> dontRepeatFor, indexes |-> <<>>]

\* no nextUniqueIndex call yet
NoDraw ==
    [id |-> "", sourceSize |-> 0, dontRepeatFor |-> 0, created |-> FALSE,
     index |-> NoNumber]

\* the length of a segment on the schedule, in seconds
SegmentLength(info) ==
    IF info.audibleDuration # 0 THEN info.audibleDuration ELSE info.duration

\* the indexes the "track" pool of a station holds back: its latest draws,
\* oldest first
RecentDraws(st) ==
    IF "track" \in DOMAIN st.indexDrawPools
    THEN st.indexDrawPools["track"].discard
    ELSE <<>>

\* the index a call drew from the "track" pool, if it drew one
TrackDraw(before, after) ==
    IF RecentDraws(after) # <<>> /\ RecentDraws(after) # RecentDraws(before)
    THEN <<RecentDraws(after)[Len(RecentDraws(after))]>>
    ELSE <<>>

Count(t, segment) ==
    [segments |-> t.segments + 1,
     music |-> t.music + (IF segment.info.category = CAT_MUSIC THEN 1 ELSE 0),
     time |-> t.time + SegmentLength(segment.info)]

vars == <<cfg, month, station, last, limitChanges, onAir, tally, chain, other, shared, alone,
          played, pool, drawn, manager, lastDraw, page, gen, heap, poolClone,
          tuner>>

\* the draw pools that are exercised on their own, apart from a station
benchVars == <<pool, drawn, manager, lastDraw, poolClone>>

\* the clone() taken of the pool, the arrays it has in common with the pool
\* (what one of the two writes there the other sees), and the indexes its
\* next() has returned
NoTwin == [pool |-> NoPools, shares |-> {}, indexes |-> <<>>]

\* object as it is once the arrays it shares with written have been written
Through(object, written, shares) ==
    IF object = NoPools THEN object
    ELSE [f \in DOMAIN object |-> IF f \in shares THEN written[f] ELSE object[f]]

\* a clone() that takes over the arrays of the pool
IndexDrawPoolCloneSharing(p) ==
    [pool |-> [IndexDrawPool(0, p.dontRepeatFor) EXCEPT !.draw = p.draw,
                                                       !.discard = p.discard],
     shares |-> {"draw", "discard"}, indexes |-> <<>>]

\* IndexDrawPool.clone: a pool of size 0, then a copy of each array
IndexDrawPoolClone(p) ==
    [pool |-> [IndexDrawPool(0, p.dontRepeatFor) EXCEPT !.draw = p.draw,
                                                       !.discard = p.discard],
     shares |-> {}, indexes |-> <<>>]

\* the page that selects a station: whether the StationMeta holds its
\* metadata, its _metaPromise ("none", "pending", "settled"), the call that
\* waits on a promise ("none", "createStation", "setStation"), and the
\* station object createStation() has built for it with the class it is of
pageVars == <<page>>

\* a SeededPRNG and the clone() taken of it, each with the values its
\* next() has returned since the clone was taken
genVars == <<gen>>

NoGenerator == [none |-> TRUE]

\* the radio of the page: stationIndex and the station it holds (the place
\* in stationList of the StationMeta that built it), the station whose
\* audio plays, the state of each StationMeta's metadata ("pending",
\* "loaded" or "failed"), and the setStation() calls that await
\* createStation(), in the order they were made.  null is NoNumber.
tunerVars == <<tuner>>

MaxStationList == 2
MaxWaiting == 3

StationList == 0..(MaxStationList - 1)

Untuned ==
    [stationIndex |-> NoNumber, station |-> NoNumber, playing |-> NoNumber,
     meta |-> [i \in StationList |-> "pending"], waiting |-> <<>>]

\* the objects in memory, each at its place in the sequence: first the
\* entries of the station metadata, then the objects created since
heapVars == <<heap>>

\* the intro voiceovers (attachments.intro) of the entries of a list
Intros(items) ==
    LET Upto[i \in 0..Len(items)] ==
            IF i = 0 THEN <<>> ELSE Upto[i - 1] \o items[i].intro
    IN Upto[Len(items)]

\* meta.fileGroups: every entry object of the station.json in use
MetaObjects ==
    Meta.track.items \o Meta.id.items \o Meta.mono_solo.items \o Meta.adverts.items
        \o Meta.to_adverts.items \o Intros(Meta.track.items)

Generators(prng) ==
    [original |-> prng, cloned |-> NoGenerator, fromOriginal |-> <<>>, fromCloned |-> <<>>]

\* a station that was constructed with its metadata at hand
Selected ==
    [meta |-> TRUE, metaPromise |-> "none", pending |-> "none",
     created |-> NoStation, class |-> ""]

InitWith(stations) ==
    /\ cfg \in stations
    /\ month = FirstMonth
    /\ station = NewStation
    /\ last = Call("new", 0, Ok(station, NullSeg))
    /\ limitChanges = 0
    /\ onAir = NullSeg
    /\ tally = NoTally
    /\ chain = "reset"
    /\ other = NoStation
    /\ shared = {}
    /\ alone = [a |-> station, b |-> NoStation, ret |-> NullSeg, err |-> ""]
    /\ played = <<>>
    /\ pool = IndexDrawPool(0, DefaultDontRepeatFor)
    /\ drawn = NoneDrawn(0, DefaultDontRepeatFor)
    /\ manager = NoPools
    /\ lastDraw = NoDraw
    /\ poolClone = NoTwin
    /\ tuner = Untuned
    /\ page = Selected
    /\ gen = Generators(SeededPRNG(FirstMonth))
    /\ heap = MetaObjects

Init == InitWith(1..Len(Stations))

ResetState ==
    /\ station' = resetState(station)
    /\ last' = Call("reset", 0, Ok(station', NullSeg))
    /\ onAir' = NullSeg
    /\ tally' = NoTally
    /\ chain' = "reset"
    /\ played' = <<>>
    /\ UNCHANGED <<cfg, month, limitChanges, other, shared, alone>>
    /\ UNCHANGED benchVars
    /\ UNCHANGED tunerVars
    /\ UNCHANGED heapVars
    /\ UNCHANGED pageVars
    /\ UNCHANGED genVars

NextSegment ==
    /\ station.segmentIndex < MaxSegments
    /\ station.PRNG.index < MaxIndex
    /\ \E r \in {nextSegment(station)} :
          /\ station' = r.st
          /\ last' = Call("next", 0, r)
          /\ onAir' = IF r.err = "" THEN r.ret ELSE onAir
          /\ tally' = IF r.err = "" /\ chain # "none" THEN Count(tally, r.ret) ELSE tally
          /\ chain' = IF r.err = "" THEN chain ELSE "none"
          /\ played' = played \o TrackDraw(station, r.st)
    /\ UNCHANGED <<cfg, month, limitChanges, other, shared, alone>>
    /\ UNCHANGED benchVars
    /\ UNCHANGED tunerVars
    /\ UNCHANGED heapVars
    /\ UNCHANGED pageVars
    /\ UNCHANGED genVars

GetSyncedSegment ==
    \E now \in NowValues :
        /\ \E r \in {getSyncedSegment(station, now)} :
              /\ station' = r.st
              /\ last' = Call("sync", now, r)
              /\ onAir' = r.ret
              /\ chain' = IF r.err = "" THEN "sync" ELSE "none"
              /\ played' = RecentDraws(r.st)
        /\ tally' = NoTally
        /\ UNCHANGED <<cfg, month, limitChanges, other, shared, alone>>
        /\ UNCHANGED benchVars
        /\ UNCHANGED tunerVars
        /\ UNCHANGED heapVars
        /\ UNCHANGED pageVars
        /\ UNCHANGED genVars

PeekSegment ==
    \E segmentOffset \in (0 - MaxPeek)..MaxPeek :
        /\ \E r \in {peekSegment(station, segmentOffset, MaxDepth)} :
              station' = r.st /\ last' = Call("peek", segmentOffset, r)
        /\ UNCHANGED <<cfg, month, limitChanges, onAir, tally, chain, other, shared, alone, played>>
        /\ UNCHANGED benchVars
        /\ UNCHANGED tunerVars
        /\ UNCHANGED heapVars
        /\ UNCHANGED pageVars
        /\ UNCHANGED genVars

SetHistoryLimitWithin(changes) ==
    \E value \in 0..MaxLimit :
        /\ limitChanges < changes
        /\ limitChanges' = limitChanges + 1
        /\ station' = setHistoryLimit(station, value)
        /\ last' = Call("limit", value, Ok(station', NullSeg))
        /\ chain' = "none"
        /\ UNCHANGED <<cfg, month, onAir, tally, other, shared, alone, played>>
        /\ UNCHANGED benchVars
        /\ UNCHANGED tunerVars
        /\ UNCHANGED heapVars
        /\ UNCHANGED pageVars
        /\ UNCHANGED genVars

SetHistoryLimit == SetHistoryLimitWithin(MaxLimitChanges)

Next ==
    \/ ResetState
    \/ NextSegment
    \/ GetSyncedSegment
    \/ PeekSegment
    \/ SetHistoryLimit

Spec == Init /\ [][Next]_vars

(***************************************************************************)
(* The same station while the wall clock passes the end of a month.        *)
(***************************************************************************)
MonthChange ==
    /\ month < LastMonth
    /\ month' = month + 1
    /\ last' = Call("month", 0, Ok(station, NullSeg))
    /\ chain' = "none"
    /\ UNCHANGED <<cfg, station, limitChanges, onAir, tally, other, shared, alone, played>>
    /\ UNCHANGED benchVars
    /\ UNCHANGED tunerVars
    /\ UNCHANGED heapVars
    /\ UNCHANGED pageVars
    /\ UNCHANGED genVars

MonthNext ==
    \/ ResetState
    \/ NextSegment
    \/ GetSyncedSegment
    \/ MonthChange

SpecMonth == Init /\ [][MonthNext]_vars

(***************************************************************************)
(* Any of the stations, those with a longer track list or with missing or  *)
(* empty file groups included, reset, stepped and synced, while its        *)
(* historyLimit is set and set again.                                      *)
(***************************************************************************)
MaxAnyLimitChanges == 2

AnyInit == InitWith(1..Len(AllStations))

SetHistoryLimitAgain == SetHistoryLimitWithin(MaxAnyLimitChanges)

AnyNext ==
    \/ ResetState
    \/ NextSegment
    \/ GetSyncedSegment
    \/ SetHistoryLimitAgain

SpecAny == AnyInit /\ [][AnyNext]_vars

(***************************************************************************)
(* The dynamic station of five tracks on a long run of nextSegment()       *)
(* calls, from the epoch of any of the months.                             *)
(***************************************************************************)
MaxRun == 12

LongStation == 4

LongInit == InitWith({LongStation})

LongNextSegment ==
    /\ station.segmentIndex < MaxRun
    /\ \E r \in {nextSegment(station)} :
          /\ station' = r.st
          /\ last' = Call("next", 0, r)
          /\ onAir' = IF r.err = "" THEN r.ret ELSE onAir
          /\ tally' = IF r.err = "" /\ chain # "none" THEN Count(tally, r.ret) ELSE tally
          /\ chain' = IF r.err = "" THEN chain ELSE "none"
          /\ played' = played \o TrackDraw(station, r.st)
    /\ UNCHANGED <<cfg, month, limitChanges, other, shared, alone>>
    /\ UNCHANGED benchVars
    /\ UNCHANGED tunerVars
    /\ UNCHANGED heapVars
    /\ UNCHANGED pageVars
    /\ UNCHANGED genVars

LongNext ==
    \/ ResetState
    \/ LongNextSegment
    \/ MonthChange
    \/ GetSyncedSegment

SpecLong == LongInit /\ [][LongNext]_vars

(***************************************************************************)
(* The page selecting a station.  Its StationMeta is built without         *)
(* metadata; loadMeta() fetches station.json once and keeps the promise,   *)
(* whose catch() turns a failed fetch into a promise resolved with         *)
(* undefined.  setStation() awaits createStation(), which awaits           *)
(* loadMeta() when the metadata is not there yet, then syncs the station   *)
(* it was given.  The part of a call after an await is a step of its own.  *)
(***************************************************************************)
\* the switch of createStation
StationClassStrict(type) ==
    CASE type = "static" -> "StaticStation"
      [] type = "talkshow" -> "TalkshowStation"
      [] type = "dynamic" -> "DynamicStation"
      [] OTHER -> "RadioStation"

StationClass(type) ==
    CASE type = "static" -> "StaticStation"
      [] type = "talkshow" -> "TalkshowStation"
      [] OTHER -> "DynamicStation"

\* new C(path, meta): the constructor of RadioStation, reached through super()
Construct(class) ==
    IF class = "RadioStation"
    THEN [created |-> NoStation, class |-> "", err |-> "Error"]
    ELSE [created |-> NewStation, class |-> class, err |-> ""]

\* createStation that goes on to the switch whatever loadMeta() brought
createStationUnawareOfFailure == Construct(StationClass(Meta.type))

\* createStation from the switch on: this.meta is null when the fetch failed
createStation ==
    IF ~page.meta THEN [created |-> NoStation, class |-> "", err |-> "TypeError"]
    ELSE Construct(StationClass(Meta.type))

Unselected ==
    [meta |-> FALSE, metaPromise |-> "none", pending |-> "none",
     created |-> NoStation, class |-> ""]

CreateInit ==
    /\ cfg \in 1..Len(AllStations)
    /\ month = FirstMonth
    /\ station = NoStation
    /\ last = Call("page", 0, Ok(station, NullSeg))
    /\ limitChanges = 0
    /\ onAir = NullSeg
    /\ tally = NoTally
    /\ chain = "none"
    /\ other = NoStation
    /\ shared = {}
    /\ alone = [a |-> NoStation, b |-> NoStation, ret |-> NullSeg, err |-> ""]
    /\ played = <<>>
    /\ pool = IndexDrawPool(0, DefaultDontRepeatFor)
    /\ drawn = NoneDrawn(0, DefaultDontRepeatFor)
    /\ manager = NoPools
    /\ lastDraw = NoDraw
    /\ poolClone = NoTwin
    /\ tuner = Untuned
    /\ page \in {Unselected, [Unselected EXCEPT !.metaPromise = "pending"]}
    /\ gen = Generators(SeededPRNG(FirstMonth))
    /\ heap = MetaObjects

pageFrame == <<cfg, month, station, limitChanges, onAir, tally, chain, other, shared, alone, played>>

\* fetch(station.json) resolves: this.meta = res
FetchSucceeds ==
    /\ page.metaPromise = "pending"
    /\ page' = [page EXCEPT !.metaPromise = "settled", !.meta = TRUE]
    /\ last' = Call("fetch", 0, Ok(station, NullSeg))
    /\ UNCHANGED pageFrame
    /\ UNCHANGED benchVars
    /\ UNCHANGED tunerVars
    /\ UNCHANGED heapVars
    /\ UNCHANGED genVars

\* fetch(station.json) rejects: the catch() logs the error
FetchFails ==
    /\ page.metaPromise = "pending"
    /\ page' = [page EXCEPT !.metaPromise = "settled"]
    /\ last' = Call("fetch", 0, Throw(station, "NetworkError"))
    /\ UNCHANGED pageFrame
    /\ UNCHANGED benchVars
    /\ UNCHANGED tunerVars
    /\ UNCHANGED heapVars
    /\ UNCHANGED genVars

Built(c) == [page EXCEPT !.created = c.created, !.class = c.class, !.pending = "setStation"]

\* setStation(index) up to its await, createStation() up to its own
SetStation ==
    /\ page.pending = "none"
    /\ \E c \in {createStation} :
          IF page.meta
          THEN /\ page' = Built(c)
               /\ last' = Call("createStation", 0, [ret |-> NullSeg, err |-> c.err])
          ELSE /\ page' = [page EXCEPT !.pending = "createStation",
                                       !.metaPromise = IF @ = "none" THEN "pending" ELSE @]
               /\ last' = Call("setStation", 0, Ok(station, NullSeg))
    /\ UNCHANGED pageFrame
    /\ UNCHANGED benchVars
    /\ UNCHANGED tunerVars
    /\ UNCHANGED heapVars
    /\ UNCHANGED genVars

\* createStation() after 'await this.loadMeta()'
CreateStationResume ==
    /\ page.pending = "createStation"
    /\ page.metaPromise = "settled"
    /\ \E c \in {createStation} :
          /\ page' = IF c.err = "" THEN Built(c) ELSE [page EXCEPT !.pending = "none"]
          /\ last' = Call("createStation", 0, [ret |-> NullSeg, err |-> c.err])
    /\ UNCHANGED pageFrame
    /\ UNCHANGED benchVars
    /\ UNCHANGED tunerVars
    /\ UNCHANGED heapVars
    /\ UNCHANGED genVars

\* setStation(index) after 'await createStation()': syncToStation()
SetStationResume ==
    /\ page.pending = "setStation"
    /\ \E now \in NowValues :
          \E r \in {getSyncedSegment(page.created, now)} :
              /\ station' = r.st
              /\ last' = Call("sync", now, r)
              /\ onAir' = r.ret
              /\ chain' = IF r.err = "" THEN "sync" ELSE "none"
              /\ played' = RecentDraws(r.st)
    /\ page' = [page EXCEPT !.pending = "none", !.created = NoStation]
    /\ tally' = NoTally
    /\ UNCHANGED <<cfg, month, limitChanges, other, shared, alone>>
    /\ UNCHANGED benchVars
    /\ UNCHANGED tunerVars
    /\ UNCHANGED heapVars
    /\ UNCHANGED genVars

\* preloadNextSegment() of the station that plays
PreloadNextSegment ==
    /\ station # NoStation
    /\ NextSegment

\* new RadioStation(path, meta)
NewRadioStation ==
    /\ last.op # "new RadioStation"
    /\ \E c \in {Construct("RadioStation")} :
          last' = Call("new RadioStation", 0, [ret |-> NullSeg, err |-> c.err])
    /\ UNCHANGED pageFrame
    /\ UNCHANGED benchVars
    /\ UNCHANGED tunerVars
    /\ UNCHANGED heapVars
    /\ UNCHANGED pageVars
    /\ UNCHANGED genVars

CreateNext ==
    \/ FetchSucceeds
    \/ FetchFails
    \/ SetStation
    \/ CreateStationResume
    \/ SetStationResume
    \/ PreloadNextSegment
    \/ NewRadioStation

SpecCreate == CreateInit /\ [][CreateNext]_vars

(***************************************************************************)
(* A SeededPRNG on its own: new SeededPRNG(seed) for the epoch of any      *)
(* month, next() on it, clone() of it, and next() on the clone.            *)
(***************************************************************************)
GenInit == InitWith({1})

genFrame == <<cfg, month, station, limitChanges, onAir, tally, chain, other, shared, alone, played>>

Returned(op, prng, rnd) == [op |-> op, arg |-> prng.index, ret |-> rnd.value, err |-> ""]

\* gen = new SeededPRNG(Date.UTC of a month)
NewSeededPRNG ==
    /\ \E m \in FirstMonth..LastMonth :
          /\ gen' = Generators(SeededPRNG(m))
          /\ last' = [op |-> "new SeededPRNG", arg |-> m, ret |-> NullSeg, err |-> ""]
    /\ UNCHANGED genFrame
    /\ UNCHANGED benchVars
    /\ UNCHANGED tunerVars
    /\ UNCHANGED heapVars
    /\ UNCHANGED pageVars

\* gen.next()
OriginalGenNextWith(rnd) ==
    /\ gen' = [gen EXCEPT !.original = rnd.PRNG,
                          !.fromOriginal = IF gen.cloned = NoGenerator THEN <<>>
                                           ELSE Append(@, rnd.value)]
    /\ last' = Returned("prng.next", gen.original, rnd)

OriginalGenNext ==
    /\ gen.original.index < MaxIndex
    /\ OriginalGenNextWith(PRNGNext(gen.original))
    /\ UNCHANGED genFrame
    /\ UNCHANGED benchVars
    /\ UNCHANGED tunerVars
    /\ UNCHANGED heapVars
    /\ UNCHANGED pageVars

\* cloned = gen.clone()
GenClone ==
    /\ gen' = [gen EXCEPT !.cloned = PRNGClone(gen.original),
                          !.fromOriginal = <<>>, !.fromCloned = <<>>]
    /\ last' = [op |-> "prng.clone", arg |-> gen.original.index, ret |-> NullSeg, err |-> ""]
    /\ UNCHANGED genFrame
    /\ UNCHANGED benchVars
    /\ UNCHANGED tunerVars
    /\ UNCHANGED heapVars
    /\ UNCHANGED pageVars

\* cloned.next()
ClonedGenNextWith(rnd) ==
    /\ gen' = [gen EXCEPT !.cloned = rnd.PRNG, !.fromCloned = Append(@, rnd.value)]
    /\ last' = Returned("cloned.next", gen.cloned, rnd)

ClonedGenNext ==
    /\ gen.cloned # NoGenerator
    /\ gen.cloned.index < MaxIndex
    /\ ClonedGenNextWith(PRNGNext(gen.cloned))
    /\ UNCHANGED genFrame
    /\ UNCHANGED benchVars
    /\ UNCHANGED tunerVars
    /\ UNCHANGED heapVars
    /\ UNCHANGED pageVars

GenNext ==
    \/ NewSeededPRNG
    \/ OriginalGenNext
    \/ GenClone
    \/ ClonedGenNext

SpecGen == GenInit /\ [][GenNext]_vars

(***************************************************************************)
(* The objects the scheduler handles.  setSegmentCategory and              *)
(* resolveObjectPath are applied to any object in memory, an entry of the  *)
(* metadata or a copy made earlier, and a voiceover is given its offset as *)
(* impl_resolveSegment does.  Each step yields the memory and the place of *)
(* the object it returns.                                                  *)
(***************************************************************************)
MaxCopies == 2

TaggedStations == {3, 11}

\* a new object; an existing one overwritten
Alloc(h, object) == [heap |-> Append(h, object), ref |-> Len(h) + 1]
Store(h, ref, object) == [heap |-> [h EXCEPT ![ref] = object], ref |-> ref]

\* a setSegmentCategory that assigns the category to the entry itself
setSegmentCategoryInPlace(h, ref, category) ==
    Store(h, ref, [h[ref] EXCEPT !.category = category])

\* setSegmentCategory: Object.assign with a new object { category } as target
setSegmentCategoryAt(h, ref, category) ==
    Alloc(h, setSegmentCategory(h[ref], category))

\* a resolveObjectPath that writes the path into the object it was given
resolveObjectPathInPlace(h, ref) == Store(h, ref, resolveObjectPath(h[ref]))

\* resolveObjectPath: info = Object.assign({}, object), info.path = ...
resolveObjectPathAt(h, ref) == Alloc(h, resolveObjectPath(h[ref]))

\* selected = resolveObjectPath(voiceover); selected.offset = offset
SetOffset(r, offset) == Store(r.heap, r.ref, [r.heap[r.ref] EXCEPT !.offset = offset])

AttachVoiceoverAt(h, ref, offset) == SetOffset(resolveObjectPathAt(h, ref), offset)

IsVoiceover(object) == "offset" \in DOMAIN object

OffsetValues == {DEFAULT_DJ_INTRO_OFFSET_MS, 1000}

HeapInit == InitWith(TaggedStations)

heapFrame == <<cfg, month, station, limitChanges, onAir, tally, chain, other, shared, alone, played>>

Handled(op, ref, r) == [op |-> op, arg |-> ref, ret |-> r.heap[r.ref], err |-> ""]

SetSegmentCategory ==
    /\ Len(heap) < Len(MetaObjects) + MaxCopies
    /\ \E ref \in DOMAIN heap, category \in {CAT_MUSIC, CAT_ADVERTS, CAT_IDENTS, CAT_DJSOLO} :
          /\ ~IsVoiceover(heap[ref])
          /\ \E r \in {setSegmentCategoryAt(heap, ref, category)} :
                /\ heap' = r.heap
                /\ last' = Handled("setSegmentCategory", ref, r)
    /\ UNCHANGED heapFrame
    /\ UNCHANGED benchVars
    /\ UNCHANGED tunerVars
    /\ UNCHANGED pageVars
    /\ UNCHANGED genVars

ResolveObjectPath ==
    /\ Len(heap) < Len(MetaObjects) + MaxCopies
    /\ \E ref \in DOMAIN heap :
          /\ heap[ref].path[1] # DataPath
          /\ \E r \in {resolveObjectPathAt(heap, ref)} :
                /\ heap' = r.heap
                /\ last' = Handled("resolveObjectPath", ref, r)
    /\ UNCHANGED heapFrame
    /\ UNCHANGED benchVars
    /\ UNCHANGED tunerVars
    /\ UNCHANGED pageVars
    /\ UNCHANGED genVars

AttachVoiceover ==
    /\ Len(heap) < Len(MetaObjects) + MaxCopies
    /\ \E ref \in DOMAIN heap, offset \in OffsetValues :
          /\ IsVoiceover(heap[ref])
          /\ heap[ref].path[1] # DataPath
          /\ \E r \in {AttachVoiceoverAt(heap, ref, offset)} :
                /\ heap' = r.heap
                /\ last' = Handled("attachVoiceover", ref, r)
    /\ UNCHANGED heapFrame
    /\ UNCHANGED benchVars
    /\ UNCHANGED tunerVars
    /\ UNCHANGED pageVars
    /\ UNCHANGED genVars

HeapNext ==
    \/ SetSegmentCategory
    \/ ResolveObjectPath
    \/ AttachVoiceover

SpecHeap == HeapInit /\ [][HeapNext]_vars

(***************************************************************************)
(* A station and its clone(true), each stepped by nextSegment() in any     *)
(* order.  shared holds the fields whose container both objects refer to:  *)
(* what one writes there the other sees.  alone holds the two instances as *)
(* they would be if each had a private copy of everything (a advances with *)
(* the original, b with the clone), and what the last call returned there. *)
(***************************************************************************)
OriginalNext ==
    /\ station.segmentIndex < MaxSegments
    /\ \E r \in {nextSegment(station)}, q \in {nextSegment(alone.a)} :
          /\ station' = r.st
          /\ other' = IF other = NoStation THEN other ELSE WriteBack(other, r.st, shared)
          /\ last' = Call("next", 0, r)
          /\ alone' = [alone EXCEPT !.a = q.st, !.ret = q.ret, !.err = q.err]
    /\ UNCHANGED <<cfg, month, limitChanges, onAir, tally, chain, shared, played>>
    /\ UNCHANGED benchVars
    /\ UNCHANGED tunerVars
    /\ UNCHANGED heapVars
    /\ UNCHANGED pageVars
    /\ UNCHANGED genVars

Fork ==
    /\ other = NoStation
    /\ \E c \in {clone(station, TRUE)} :
          /\ other' = c.station
          /\ shared' = c.shares
          /\ last' = Call("clone", 0, Ok(station, NullSeg))
          /\ alone' = [alone EXCEPT !.b = alone.a, !.ret = NullSeg, !.err = ""]
    /\ UNCHANGED <<cfg, month, station, limitChanges, onAir, tally, chain, played>>
    /\ UNCHANGED benchVars
    /\ UNCHANGED tunerVars
    /\ UNCHANGED heapVars
    /\ UNCHANGED pageVars
    /\ UNCHANGED genVars

CloneNext ==
    /\ other # NoStation
    /\ other.segmentIndex < MaxSegments
    /\ \E r \in {nextSegment(other)}, q \in {nextSegment(alone.b)} :
          /\ other' = r.st
          /\ station' = WriteBack(station, r.st, shared)
          /\ last' = Call("cloneNext", 0, r)
          /\ alone' = [alone EXCEPT !.b = q.st, !.ret = q.ret, !.err = q.err]
    /\ UNCHANGED <<cfg, month, limitChanges, onAir, tally, chain, shared, played>>
    /\ UNCHANGED benchVars
    /\ UNCHANGED tunerVars
    /\ UNCHANGED heapVars
    /\ UNCHANGED pageVars
    /\ UNCHANGED genVars

ForkNext ==
    \/ OriginalNext
    \/ Fork
    \/ CloneNext

SpecFork == Init /\ [][ForkNext]_vars

(***************************************************************************)
(* A draw pool on its own: new IndexDrawPool(sourceSize, dontRepeatFor)    *)
(* and next(randomInteger) with any random integers.  drawn holds the      *)
(* arguments the pool was built with and the indexes next() has returned.  *)
(***************************************************************************)
MaxSource == 4
MaxRepeat == 3
MaxDraws == 5
MaxRandom == 2

\* random integers: small ones and ones near 2^32
RandomIntegers == {Word(hi, lo) : hi \in {0, W16 - 1}, lo \in 0..MaxRandom}

stationVars ==
    <<cfg, month, station, last, limitChanges, onAir, tally, chain, other, shared, alone,
      played>>

NewPool ==
    \E sourceSize \in 0..MaxSource, dontRepeatFor \in 0..MaxRepeat :
        /\ pool' = IndexDrawPool(sourceSize, dontRepeatFor)
        /\ drawn' = NoneDrawn(sourceSize, dontRepeatFor)
        /\ poolClone' = NoTwin
        /\ UNCHANGED <<manager, lastDraw>>
        /\ UNCHANGED stationVars
        /\ UNCHANGED tunerVars
        /\ UNCHANGED heapVars
        /\ UNCHANGED pageVars
        /\ UNCHANGED genVars

PoolDraw ==
    \E randomInteger \in RandomIntegers :
        /\ Len(drawn.indexes) < MaxDraws
        /\ \E r \in {PoolNext(pool, randomInteger)} :
              /\ pool' = r.pool
              /\ drawn' = [drawn EXCEPT !.indexes = Append(drawn.indexes, r.selected)]
              /\ poolClone' = [poolClone EXCEPT
                                 !.pool = Through(@, r.pool, poolClone.shares)]
        /\ UNCHANGED <<manager, lastDraw>>
        /\ UNCHANGED stationVars
        /\ UNCHANGED tunerVars
        /\ UNCHANGED heapVars
        /\ UNCHANGED pageVars
        /\ UNCHANGED genVars

PoolStep ==
    \/ NewPool
    \/ PoolDraw

\* the pools are exercised beside one station, which stays as it was built
BenchInit == Init /\ cfg = 1

SpecPool == BenchInit /\ [][PoolStep]_vars

MaxTwinDraws == 2

\* poolClone = pool.clone()
PoolClone ==
    /\ poolClone' = IndexDrawPoolClone(pool)
    /\ UNCHANGED <<pool, drawn, manager, lastDraw>>
    /\ UNCHANGED stationVars
    /\ UNCHANGED tunerVars
    /\ UNCHANGED heapVars
    /\ UNCHANGED pageVars
    /\ UNCHANGED genVars

\* poolClone.next(randomInteger)
TwinDraw ==
    \E randomInteger \in RandomIntegers :
        /\ poolClone.pool # NoPools
        /\ Len(poolClone.indexes) < MaxTwinDraws
        /\ \E r \in {PoolNext(poolClone.pool, randomInteger)} :
              /\ poolClone' = [poolClone EXCEPT !.pool = r.pool,
                                      !.indexes = Append(poolClone.indexes, r.selected)]
              /\ pool' = Through(pool, r.pool, poolClone.shares)
        /\ UNCHANGED <<drawn, manager, lastDraw>>
        /\ UNCHANGED stationVars
        /\ UNCHANGED tunerVars
        /\ UNCHANGED heapVars
        /\ UNCHANGED pageVars
        /\ UNCHANGED genVars

TwinStep ==
    \/ NewPool
    \/ PoolDraw
    \/ PoolClone
    \/ TwinDraw

SpecTwin == BenchInit /\ [][TwinStep]_vars

(***************************************************************************)
(* The listener at the station buttons.  The page starts loadMeta() of     *)
(* every station when it builds the buttons.  A click runs setStation(i)   *)
(* up to its await; what follows the await runs when the metadata of i has *)
(* settled, in the microtasks of that event, the calls that wait on the    *)
(* same promise in the order they were made.                               *)
(***************************************************************************)
\* setStation that drops a selection that is no longer the current one
ResumedIfCurrent(t, index) ==
    IF t.meta[index] = "loaded" /\ t.stationIndex = index
    THEN [t EXCEPT !.station = index, !.playing = index]
    ELSE t

\* setStation(index) after 'station = await createStation()'
Resumed(t, index) ==
    IF t.meta[index] = "loaded"
    THEN [t EXCEPT !.station = index, !.playing = index]
    ELSE t

\* every waiting call on index resumes, the earliest first
RECURSIVE ResumeWaiting(_, _, _)
ResumeWaiting(t, index, k) ==
    IF k > Len(t.waiting) THEN [t EXCEPT !.waiting = SelectSeq(@, LAMBDA w : w # index)]
    ELSE IF t.waiting[k] = index THEN ResumeWaiting(Resumed(t, index), index, k + 1)
    ELSE ResumeWaiting(t, index, k + 1)

Settled(t, index, outcome) ==
    ResumeWaiting([t EXCEPT !.meta[index] = outcome], index, 1)

\* the fetch of station.json of a station resolves or rejects
MetaSettles ==
    /\ \E index \in StationList, outcome \in {"loaded", "failed"} :
          /\ tuner.meta[index] = "pending"
          /\ tuner' = Settled(tuner, index, outcome)
    /\ UNCHANGED stationVars
    /\ UNCHANGED benchVars
    /\ UNCHANGED heapVars
    /\ UNCHANGED pageVars
    /\ UNCHANGED genVars

Tuned(t, index) ==
    IF t.meta[index] = "pending" THEN [t EXCEPT !.waiting = Append(@, index)]
    ELSE Resumed(t, index)

\* a click on a station button: setStation(index)
SelectStation ==
    /\ Len(tuner.waiting) < MaxWaiting
    /\ \E index \in StationList :
          tuner' = Tuned([tuner EXCEPT !.stationIndex = index], index)
    /\ UNCHANGED stationVars
    /\ UNCHANGED benchVars
    /\ UNCHANGED heapVars
    /\ UNCHANGED pageVars
    /\ UNCHANGED genVars

\* a click on the button of no station: stopStation()
StopStation ==
    /\ tuner' = [tuner EXCEPT !.playing = NoNumber, !.stationIndex = NoNumber]
    /\ UNCHANGED stationVars
    /\ UNCHANGED benchVars
    /\ UNCHANGED heapVars
    /\ UNCHANGED pageVars
    /\ UNCHANGED genVars

TunerNext ==
    \/ MetaSettles
    \/ SelectStation
    \/ StopStation

SpecTuner == BenchInit /\ [][TunerNext]_vars

(***************************************************************************)
(* A pool manager on its own: nextUniqueIndex(id, sourceSize,              *)
(* randomInteger, dontRepeatFor) for a few ids.  The list an id stands for *)
(* keeps its length, so a later call on the id passes the sourceSize of    *)
(* the first.  lastDraw holds the last call and the index it returned.     *)
(***************************************************************************)
PoolIds == {"track", "id"}
MaxList == 3

\* the length of the list a pool was created for
SizeOf(p) == Len(p.draw) + Len(p.discard)

ManagerDraw ==
    \E id \in PoolIds, sourceSize \in 1..MaxList,
       dontRepeatFor \in (0..MaxRepeat) \cup {DefaultDontRepeatFor},
       randomInteger \in RandomIntegers :
        /\ id \in DOMAIN manager => sourceSize = SizeOf(manager[id])
        /\ \E r \in {nextUniqueIndex(manager, id, sourceSize, randomInteger, dontRepeatFor)} :
              /\ manager' = r.pools
              /\ lastDraw' = [id |-> id, sourceSize |-> sourceSize,
                              dontRepeatFor |-> dontRepeatFor,
                              created |-> id \notin DOMAIN manager,
                              index |-> r.selected]
        /\ UNCHANGED <<pool, drawn, poolClone>>
        /\ UNCHANGED stationVars
        /\ UNCHANGED tunerVars
        /\ UNCHANGED heapVars
        /\ UNCHANGED pageVars
        /\ UNCHANGED genVars

ManagerStep == ManagerDraw

SpecManager == BenchInit /\ [][ManagerStep]_vars

(***************************************************************************)
(* What the properties below speak of.                                     *)
(***************************************************************************)
\* segment is on the air at the clock reading now of its month
OnAirAt(segment, now) ==
    /\ segment.startTimestamp[2] <= now
    /\ now < segment.startTimestamp[2] + (SegmentLength(segment.info) * 1000)

SameSegment(a, b) ==
    /\ a.info.path = b.info.path
    /\ a.info.category = b.info.category
    /\ a.startTimestamp = b.startTimestamp

\* what a station constructed now returns from getSyncedSegment() at now
FreshSync(now) == getSyncedSegment(NewStation, now)

\* the first n selections of a replay from the reset state
RECURSIVE Replay(_, _)
Replay(st, n) ==
    IF n = 0 THEN <<>>
    ELSE LET r == nextSegmentInfo(st, "raw", 0, MaxDepth)
         IN IF r.err # "" THEN <<>> ELSE <<r.ret>> \o Replay(r.st, n - 1)

RECURSIVE TotalLength(_)
TotalLength(infos) ==
    IF infos = <<>> THEN 0 ELSE SegmentLength(Head(infos)) + TotalLength(Tail(infos))

\* the station after n nextSegment() calls
RECURSIVE RunNext(_, _)
RunNext(st, n) == IF n = 0 THEN st ELSE RunNext(nextSegment(st).st, n - 1)

\* a timestamp in whole seconds since 1970
Seconds(stamp) == (EpochDays(stamp[1]) * 86400) + (stamp[2] \div 1000)

\* the state of a live station that a peek must not touch
LiveState(st) ==
    [segmentIndex |-> st.segmentIndex, trackIndex |-> st.trackIndex,
     accumulatedTime |-> st.accumulatedTime, segmentHistory |-> st.segmentHistory,
     index |-> st.PRNG.index, indexDrawPools |-> st.indexDrawPools]

\* everything of a station but the memo of the merged advert list
SchedulingState(st) == [st EXCEPT !.commonListCache = NoCache]

(***************************************************************************)
(* C1: a station that synced at some reading of the month and was then     *)
(* stepped with nextSegment() holds, at every clock reading t2 of the same *)
(* month at which its segment is on the air, a segment with the path,      *)
(* category and startTimestamp that a fresh station returns from           *)
(* getSyncedSegment() at t2.                                               *)
(***************************************************************************)
C1_SyncThenStepMatchesFreshSync ==
    (chain = "sync" /\ ~IsNull(onAir)) =>
        \A t2 \in NowValues :
            OnAirAt(onAir, t2) =>
                LET fresh == FreshSync(t2)
                IN fresh.err = "" /\ SameSegment(fresh.ret, onAir)

C1_Witness ==
    /\ chain = "sync"
    /\ last.op = "next"
    /\ Meta.type = "dynamic"
    /\ tally.segments >= 3
    /\ \E t2 \in NowValues : OnAirAt(onAir, t2)

(***************************************************************************)
(* C2: getSyncedSegment() at the clock reading now returns the segment on  *)
(* the air at now: it is the n-th selection of the replay from the epoch,  *)
(* it starts at epoch + 1000 * (the lengths of the n - 1 selections before *)
(* it), every earlier selection ends at or before now, and now lies before *)
(* its own end.                                                            *)
(***************************************************************************)
C2_SyncedSegmentIsOnAir ==
    (last.op = "sync" /\ last.err = "") =>
        LET now == last.arg
            n == station.segmentIndex
            replay == Replay(NewStation, n)
            start == TotalLength(SubSeq(replay, 1, n - 1)) * 1000
        IN /\ n >= 1
           /\ Len(replay) = n
           /\ last.ret.info = resolveObjectPath(replay[n])
           /\ last.ret.startTimestamp = <<month, start>>
           /\ \A i \in 1..(n - 1) : TotalLength(SubSeq(replay, 1, i)) * 1000 <= now
           /\ start <= now
           /\ now < start + (SegmentLength(replay[n]) * 1000)

C2_Witness ==
    /\ last.op = "sync"
    /\ last.err = ""
    /\ Meta.type = "dynamic"
    /\ station.segmentIndex >= 4
    /\ last.arg = last.ret.startTimestamp[2]

(***************************************************************************)
(* C3: in one month, the k-th nextSegment() call after a resetState()      *)
(* returns, on a station with any past, the category, path and             *)
(* startTimestamp that the k-th call returns on a newly built station.     *)
(***************************************************************************)
C3_ResetThenStepIsDeterministic ==
    (chain = "reset" /\ last.op = "next" /\ last.err = "") =>
        LET twin == nextSegment(RunNext(NewStation, tally.segments - 1))
        IN twin.err = "" /\ SameSegment(twin.ret, last.ret)

C3_Witness ==
    /\ chain = "reset"
    /\ last.op = "next"
    /\ last.err = ""
    /\ Meta.type = "dynamic"
    /\ tally.segments >= 4
    /\ station.historyLimit = 1

(***************************************************************************)
(* C4: a Dynamic station that synced and was then stepped to a schedule    *)
(* position carries there the voiceovers that a fresh station attaches     *)
(* when it syncs directly to that position.                                *)
(***************************************************************************)
C4_VoiceoversAgreeWithDirectSync ==
    (chain = "sync" /\ Meta.type = "dynamic" /\ ~IsNull(onAir)) =>
        \A t2 \in NowValues :
            OnAirAt(onAir, t2) =>
                LET fresh == FreshSync(t2)
                IN fresh.err = "" /\ fresh.ret.voiceovers = onAir.voiceovers

(***************************************************************************)
(* C5: a nextSegment() call that returns adds 1 to segmentIndex, adds 1 to *)
(* trackIndex exactly when the returned segment is MUSIC, and adds the     *)
(* segment's audibleDuration, else its duration, to accumulatedTime, which *)
(* never decreases; after any calls since resetState() segmentIndex is the *)
(* number of selections, trackIndex the number of MUSIC selections (at     *)
(* most segmentIndex) and accumulatedTime the sum of the lengths.          *)
(***************************************************************************)
C5_CountersFollowSelections ==
    /\ [][(last'.op = "next" /\ last'.err = "") =>
            /\ station'.segmentIndex = station.segmentIndex + 1
            /\ station'.trackIndex = station.trackIndex
                   + (IF last'.ret.info.category = CAT_MUSIC THEN 1 ELSE 0)
            /\ station'.accumulatedTime = station.accumulatedTime
                   + SegmentLength(last'.ret.info)
            /\ station'.accumulatedTime >= station.accumulatedTime]_vars
    /\ [](chain = "reset" =>
            /\ station.segmentIndex = tally.segments
            /\ station.trackIndex = tally.music
            /\ station.trackIndex <= station.segmentIndex
            /\ station.accumulatedTime = tally.time)

C5_Witness ==
    /\ chain = "reset"
    /\ last.op = "next"
    /\ last.err = ""
    /\ tally.segments >= 3
    /\ tally.music < tally.segments
    /\ \E i \in DOMAIN station.segmentHistory :
           station.segmentHistory[i].audibleDuration # 0

(***************************************************************************)
(* C6: the segment returned by nextSegment() starts at epoch + 1000 * (the *)
(* accumulatedTime before the call), and it starts exactly where the       *)
(* segment the station produced before it ends.                            *)
(***************************************************************************)
C6_ScheduleHasNoGapOrOverlap ==
    [][(last'.op = "next" /\ last'.err = "") =>
          /\ last'.ret.startTimestamp = <<month, station.accumulatedTime * 1000>>
          /\ ~IsNull(onAir) =>
                /\ Seconds(last'.ret.startTimestamp)
                       = Seconds(onAir.startTimestamp) + SegmentLength(onAir.info)
                /\ last'.ret.startTimestamp[2] % 1000
                       = onAir.startTimestamp[2] % 1000]_vars

(***************************************************************************)
(* C7: after n nextSegment() calls from resetState(), peekSegment(-k) with *)
(* 0 <= k < n returns the (n - k)-th selection of a replay from a fresh    *)
(* reset state, from the history or by replay alike.                       *)
(***************************************************************************)
C7_PastPeekReturnsThatSelection ==
    (/\ chain = "reset"
     /\ last.op = "peek"
     /\ last.err = ""
     /\ last.arg <= 0
     /\ 0 - last.arg < tally.segments) =>
        LET replay == Replay(NewStation, tally.segments + last.arg)
        IN last.ret = replay[tally.segments + last.arg]

(***************************************************************************)
(* C8: peekSegment(0) right after nextSegment() returns the SegmentInfo of *)
(* the segment nextSegment() just returned, returns the same again when    *)
(* repeated, and leaves segmentIndex, trackIndex, accumulatedTime, the     *)
(* history, the generator index and the draw pools as they were.           *)
(***************************************************************************)
C8_PeekCurrentIsIdempotent ==
    [][(last'.op = "peek" /\ last'.arg = 0 /\ last'.err = "") =>
          /\ (last.op = "next" /\ last.err = "") =>
                /\ ~IsNull(last'.ret)
                /\ resolveObjectPath(last'.ret) = last.ret.info
                /\ LiveState(station') = LiveState(station)
          /\ (last.op = "peek" /\ last.arg = 0 /\ last.err = "") =>
                /\ last'.ret = last.ret
                /\ LiveState(station') = LiveState(station)]_vars

(***************************************************************************)
(* C9: a peekSegment(offset) with offset > 0 that returns leaves the live  *)
(* station's segmentIndex, trackIndex, accumulatedTime, history, generator *)
(* index and draw pools exactly as they were before the call.              *)
(***************************************************************************)
C9_ForwardPeekLeavesLiveState ==
    [][(last'.op = "peek" /\ last'.arg > 0 /\ last'.err = "") =>
          LiveState(station') = LiveState(station)]_vars

C9_Witness ==
    /\ last.op = "peek"
    /\ last.arg = MaxPeek
    /\ last.err = ""
    /\ Meta.type = "dynamic"
    /\ station.segmentIndex >= 2
    /\ last.ret.category = CAT_ADVERTS

(***************************************************************************)
(* C10, as the code has it: clone(true) shares with the original, beside   *)
(* the metadata, only the memo of the merged advert list; under any        *)
(* interleaving of nextSegment() calls on the two each returns what it     *)
(* would return, and has the counters, history, generator and draw pools   *)
(* it would have, if the other had not advanced.                           *)
(***************************************************************************)
C10_CloneSharesOnlyTheListMemo ==
    other # NoStation =>
        /\ shared \subseteq {"commonListCache"}
        /\ SchedulingState(station) = SchedulingState(alone.a)
        /\ SchedulingState(other) = SchedulingState(alone.b)
        /\ last.ret = alone.ret
        /\ last.err = alone.err

C10_Witness ==
    /\ other # NoStation
    /\ Meta.type = "dynamic"
    /\ last.op = "cloneNext"
    /\ station.segmentIndex = 1
    /\ other.segmentIndex >= 3
    /\ station.commonListCache # alone.a.commonListCache

(***************************************************************************)
(* C10, as stated: no mutable container is reachable from both instances,  *)
(* and each instance returns what it would return, and reaches the state   *)
(* it would reach, if the other had not advanced.                          *)
(***************************************************************************)
C10_CloneSharesNoMutableContainer ==
    other # NoStation =>
        /\ shared = {}
        /\ station = alone.a
        /\ other = alone.b
        /\ last.ret = alone.ret
        /\ last.err = alone.err

(***************************************************************************)
(* C11: in a draw pool built for sourceSize S > dontRepeatFor K, whatever  *)
(* random integers next() is given, no index it returns equals one of the  *)
(* K indexes returned immediately before it.                               *)
(***************************************************************************)
C11_NoRepeatWithinWindow ==
    drawn.sourceSize > drawn.dontRepeatFor =>
        \A i \in DOMAIN drawn.indexes, j \in DOMAIN drawn.indexes :
            (i < j /\ j - i <= drawn.dontRepeatFor) =>
                drawn.indexes[j] # drawn.indexes[i]

C11_Witness ==
    /\ drawn.sourceSize > drawn.dontRepeatFor
    /\ drawn.dontRepeatFor >= 2
    /\ Len(drawn.indexes) >= drawn.dontRepeatFor + 2
    /\ drawn.indexes[drawn.dontRepeatFor + 2] = drawn.indexes[1]

(***************************************************************************)
(* C12: nextUniqueIndex creates the pool of an id on its first use with    *)
(* dontRepeatFor clamped to sourceSize - 1, and for sourceSize >= 1 and    *)
(* any requested dontRepeatFor no call returns null, however many draws    *)
(* were made on the id.                                                    *)
(***************************************************************************)
C12_ManagedPoolNeverExhausted ==
    lastDraw.id # "" =>
        /\ lastDraw.index # NoNumber
        /\ lastDraw.index \in 0..(lastDraw.sourceSize - 1)
        /\ lastDraw.created =>
               manager[lastDraw.id].dontRepeatFor
                   = Min(lastDraw.dontRepeatFor, lastDraw.sourceSize - 1)

C12_Witness ==
    /\ lastDraw.id # ""
    /\ ~lastDraw.created
    /\ lastDraw.sourceSize >= 2
    /\ lastDraw.dontRepeatFor >= lastDraw.sourceSize
    /\ Len(manager[lastDraw.id].discard) = lastDraw.sourceSize - 1
    /\ \A id \in PoolIds : id \in DOMAIN manager

(***************************************************************************)
(* C13: in a Dynamic station with T tracks, no track index that            *)
(* nextSegment() draws equals one of the min(8, T - 1) track indexes drawn *)
(* before it; with 5 tracks the window is 4, so no index appears twice     *)
(* among 4 consecutive track draws.                                        *)
(***************************************************************************)
C13_TracksDoNotRepeatWithinWindow ==
    Meta.type = "dynamic" =>
        \A i \in DOMAIN played, j \in DOMAIN played :
            (i < j /\ j - i <= Min(DefaultDontRepeatFor, Len(Meta.track.items) - 1)) =>
                played[j] # played[i]

C13_Witness ==
    /\ Meta.type = "dynamic"
    /\ Len(Meta.track.items) = 5
    /\ last.op = "next"
    /\ Len(played) >= 6
    /\ played[6] = played[1]

(***************************************************************************)
(* C14: a Fixed-Playlist station draws no generator value and uses no draw *)
(* pool; the segment that nextSegment() or getSyncedSegment() returns as   *)
(* selection n since the reset (n from 0) is track[n mod len(track)]       *)
(* tagged MUSIC; with durations 100, 200, 150 the first four nextSegment() *)
(* calls after resetState() leave accumulatedTime at 100, 300, 450, 550.   *)
(***************************************************************************)
C14_StaticPlaysThePlaylistInOrder ==
    Meta.type = "static" =>
        /\ station.PRNG.index = 0
        /\ station.indexDrawPools = NoPools
        /\ (last.op \in {"next", "sync"} /\ last.err = "") =>
              /\ last.ret.info =
                    resolveObjectPath(setSegmentCategory(
                        Meta.track.items[((station.segmentIndex - 1) % Len(Meta.track.items)) + 1],
                        CAT_MUSIC))
              /\ last.ret.info.category = CAT_MUSIC
        /\ (chain = "reset" /\ station.segmentIndex \in 1..4) =>
              station.accumulatedTime = <<100, 300, 450, 550>>[station.segmentIndex]

C14_Witness ==
    /\ Meta.type = "static"
    /\ chain = "reset"
    /\ last.op = "next"
    /\ last.err = ""
    /\ station.segmentIndex = 4
    /\ station.accumulatedTime = 550
    /\ last.ret.info.path[Len(last.ret.info.path)] = "t0"

(***************************************************************************)
(* C15: in a Talkshow station, with P the category of peekSegment(0)       *)
(* before the call, nextSegment() selects an entry of the common adverts   *)
(* list tagged ADVERT when P is MUSIC, an entry of the ident list tagged   *)
(* IDENT when P is ADVERT or NEWS, and track[trackIndex mod len(track)]    *)
(* tagged MUSIC when P is IDENT, when there is no current segment and when *)
(* the list needed is absent or empty; with both lists non-empty the       *)
(* categories after resetState() run MUSIC, ADVERT, IDENT, MUSIC, ...      *)
(***************************************************************************)
FromList(selected, list, category) ==
    \E i \in DOMAIN list :
        selected = resolveObjectPath(setSegmentCategory(list[i], category))

TalkshowPolicy(P, selected, st, adverts) ==
    IF P = CAT_MUSIC /\ Len(adverts) > 0
    THEN selected.category = CAT_ADVERTS /\ FromList(selected, adverts, CAT_ADVERTS)
    ELSE IF P \in {CAT_ADVERTS, CAT_NEWS} /\ Len(Meta.id.items) > 0
    THEN selected.category = CAT_IDENTS /\ FromList(selected, Meta.id.items, CAT_IDENTS)
    ELSE /\ selected.category = CAT_MUSIC
         /\ selected = resolveObjectPath(setSegmentCategory(
                           Meta.track.items[(st.trackIndex % Len(Meta.track.items)) + 1],
                           CAT_MUSIC))

TalkshowStep ==
    (Meta.type = "talkshow" /\ last'.op = "next" /\ last'.err = "") =>
        TalkshowPolicy(CategoryOf(peekSegment(station, 0, MaxDepth).ret),
                       last'.ret.info, station, getCommonList(station).list)

TalkshowCycle ==
    (/\ Meta.type = "talkshow"
     /\ Len(Meta.id.items) > 0
     /\ Len(getCommonList(station).list) > 0
     /\ chain = "reset"
     /\ last.op = "next"
     /\ last.err = "") =>
        last.ret.info.category =
            <<CAT_MUSIC, CAT_ADVERTS, CAT_IDENTS>>[((station.segmentIndex - 1) % 3) + 1]

PlaylistTrack(k) ==
    resolveObjectPath(setSegmentCategory(
        Meta.track.items[(k % Len(Meta.track.items)) + 1], CAT_MUSIC))

TalkshowTrackStep ==
    (Meta.type = "talkshow" /\ last'.op = "next" /\ last'.err = "") =>
        IF last'.ret.info.category = CAT_MUSIC
        THEN /\ last'.ret.info = PlaylistTrack(station.trackIndex)
             /\ station'.trackIndex = station.trackIndex + 1
        ELSE station'.trackIndex = station.trackIndex

TalkshowTrackCount ==
    Meta.type = "talkshow" =>
        /\ (chain = "reset") => (station.trackIndex = tally.music)
        /\ (last.op \in {"next", "sync"} /\ last.err = ""
               /\ last.ret.info.category = CAT_MUSIC) =>
                  last.ret.info = PlaylistTrack(station.trackIndex - 1)

C16_TalkshowPlaylistInOrder == [][TalkshowTrackStep]_vars /\ []TalkshowTrackCount

C16_Witness ==
    /\ Meta.type = "talkshow"
    /\ chain = "reset"
    /\ last.op = "next"
    /\ last.err = ""
    /\ tally.music = 3
    /\ tally.segments = 5
    /\ last.ret.info = PlaylistTrack(2)

(***************************************************************************)
(* C17: in a Dynamic station with a non-empty ident list, the segment that *)
(* nextSegment() selects right after an ADVERT segment is an entry of the  *)
(* ident list tagged IDENT.                                                *)
(***************************************************************************)
IdentAfterAdvert ==
    (/\ Meta.type = "dynamic"
     /\ Len(Meta.id.items) > 0
     /\ ~IsNull(onAir)
     /\ onAir.info.category = CAT_ADVERTS
     /\ last'.op = "next"
     /\ last'.err = "") =>
        /\ last'.ret.info.category = CAT_IDENTS
        /\ FromList(last'.ret.info, Meta.id.items, CAT_IDENTS)

C17_IdentFollowsAdvert == [][IdentAfterAdvert]_vars

(***************************************************************************)
(* C18: in a Dynamic station nextSegment() selects a DJ_SOLO or an ADVERT  *)
(* only when the current segment is MUSIC and the value drawn is below     *)
(* 50%, and an IDENT only when the current segment is ADVERT; the first    *)
(* segment after resetState() is MUSIC, the segment after a DJ_SOLO or an  *)
(* IDENT is MUSIC, and each selection step draws one generator value.      *)
(***************************************************************************)
CurrentCategory == IF IsNull(onAir) THEN NoCat ELSE onAir.info.category

DynamicPolicy(selected, current, randNum) ==
    /\ selected \in {CAT_DJSOLO, CAT_ADVERTS} => (current = CAT_MUSIC /\ BelowHalf(randNum))
    /\ selected = CAT_IDENTS => current = CAT_ADVERTS
    /\ current \in {NoCat, CAT_DJSOLO, CAT_IDENTS} => selected = CAT_MUSIC

DynamicStep ==
    (Meta.type = "dynamic" /\ last'.op = "next" /\ last'.err = "") =>
        /\ DynamicPolicy(last'.ret.info.category, CurrentCategory, PRNGGenerate(station.PRNG))
        /\ station'.PRNG.index = station.PRNG.index + 1

C18_DynamicTransitionsOnlyAfterMusic == [][DynamicStep]_vars

(***************************************************************************)
(* C19: for a Dynamic station with a to_adverts list, the PlayableSegment  *)
(* that nextSegment() or getSyncedSegment() returned carries a voiceover   *)
(* of the to_adverts list if and only if the segment that the following    *)
(* nextSegment() call returns is an ADVERT.                                *)
(***************************************************************************)
HasOutro(segment) ==
    \E i \in DOMAIN segment.voiceovers, j \in DOMAIN Meta.to_adverts.items :
        segment.voiceovers[i].path = resolveObjectPath(Meta.to_adverts.items[j]).path

OutroAnnouncesAdvert ==
    (/\ Meta.type = "dynamic"
     /\ Len(Meta.to_adverts.items) > 0
     /\ last.op \in {"next", "sync"}
     /\ last.err = ""
     /\ last'.op = "next"
     /\ last'.err = "") =>
        (HasOutro(last.ret) <=> last'.ret.info.category = CAT_ADVERTS)

C19_OutroIffAdvertFollows == [][OutroAnnouncesAdvert]_vars

(***************************************************************************)
(* C20: for every station type, when the list that the selection of a      *)
(* nextSegment() call needs (ident, common adverts, DJ solo) is absent or  *)
(* empty, the call does not throw and returns an entry of the track list   *)
(* tagged MUSIC, with its path and duration.                               *)
(***************************************************************************)
NeedsMissingList(P, randNum, adverts) ==
    CASE Meta.type = "talkshow" ->
            \/ P \in {CAT_ADVERTS, CAT_NEWS} /\ Len(Meta.id.items) = 0
            \/ P = CAT_MUSIC /\ Len(adverts) = 0
      [] Meta.type = "dynamic" ->
            \/ P = CAT_ADVERTS /\ Len(Meta.id.items) = 0
            \/ /\ P = CAT_MUSIC
               /\ BelowHalf(randNum)
               /\ IF randNum.lo % 2 = 0 THEN Len(Meta.mono_solo.items) = 0
                  ELSE Len(adverts) = 0
      [] OTHER -> FALSE

FallsBackToTrack(r) ==
    /\ r.err = ""
    /\ r.ret.info.category = CAT_MUSIC
    /\ r.ret.info.duration # NoNumber
    /\ FromList(r.ret.info, Meta.track.items, CAT_MUSIC)

MissingListStep(pk) ==
    (/\ last'.op = "next"
     /\ pk.err = ""
     /\ NeedsMissingList(CategoryOf(pk.ret), PRNGGenerate(station.PRNG),
                         getCommonList(station).list)) =>
        FallsBackToTrack(last')

MissingListFallsBack == MissingListStep(peekSegment(station, 0, MaxDepth))

C20_MissingListFallsBackToTrack == [][MissingListFallsBack]_vars

(***************************************************************************)
(* C21: when the track list of the station is empty, getSyncedSegment()    *)
(* ends with an error of its own: it does not go on selecting with a       *)
(* segment that has no duration and an accumulatedTime that is no number.  *)
(***************************************************************************)
C21_SyncOfEmptyPlaylistFails ==
    (Len(Meta.track.items) = 0 /\ last.op = "sync") =>
        /\ last.err \notin {"", "Diverges"}
        /\ station.accumulatedTime # NoNumber

(***************************************************************************)
(* C22: a getSyncedSegment() call made right after another, in the same    *)
(* month, returns the same segment with the same startTimestamp, and the   *)
(* same voiceovers, whenever its time lies within the segment the first    *)
(* call returned (from its start up to, not including, its end).           *)
(* As first stated: whenever the two times are less than 1 second apart.   *)
(***************************************************************************)
EndOf(segment) == segment.startTimestamp[2] + (SegmentLength(segment.info) * 1000)

SyncedAlike(first, second) ==
    /\ second.err = ""
    /\ second.ret.info = first.info
    /\ second.ret.startTimestamp = first.startTimestamp

C22_SyncStableWithinSegment ==
    (last.op = "sync" /\ last.err = "") =>
        \A now \in NowValues :
            (last.ret.startTimestamp[2] <= now /\ now < EndOf(last.ret)) =>
                /\ SyncedAlike(last.ret, getSyncedSegment(station, now))
                /\ getSyncedSegment(station, now).ret = last.ret

C22_SyncStableWithinOneSecond ==
    (last.op = "sync" /\ last.err = "") =>
        \A now \in NowValues :
            (now - last.arg < 1000 /\ last.arg - now < 1000) =>
                SyncedAlike(last.ret, getSyncedSegment(station, now))

C22_Witness ==
    /\ last.op = "sync"
    /\ last.err = ""
    /\ last.arg = 299999
    /\ EndOf(last.ret) > 300000
    /\ getSyncedSegment(station, 300000).ret = last.ret

(***************************************************************************)
(* C23: whatever nextSegment(), peekSegment() and getSyncedSegment() calls *)
(* a station made before, getSyncedSegment() returns the PlayableSegment   *)
(* (info, startTimestamp, voiceovers) that a station constructed for the   *)
(* call returns at the same time, and leaves the same counters, history,   *)
(* generator and draw pools; the memo of the merged common lists, which    *)
(* resetState() does not clear, may hold what the earlier calls put there. *)
(* As first stated: it leaves the same station state, the memo included.   *)
(***************************************************************************)
ButMemo(st) == [st EXCEPT !.commonListCache = NoCache]

SyncedAs(fresh) ==
    /\ fresh.err = last.err
    /\ fresh.ret = last.ret
    /\ ButMemo(fresh.st) = ButMemo(station)

SyncedExactlyAs(fresh) ==
    /\ fresh.err = last.err
    /\ fresh.ret = last.ret
    /\ fresh.st = station

C23_SyncDependsOnTimeOnly ==
    (last.op = "sync" /\ limitChanges = 0) => SyncedAs(FreshSync(last.arg))

C23_SyncLeavesTheSameState ==
    (last.op = "sync" /\ limitChanges = 0) => SyncedExactlyAs(FreshSync(last.arg))

C23_Witness ==
    /\ last.op = "sync"
    /\ last.err = ""
    /\ limitChanges = 0
    /\ SyncedAs(FreshSync(last.arg))
    /\ station.commonListCache # FreshSync(last.arg).st.commonListCache

(***************************************************************************)
(* C24: resetState() can be called in any state; it leaves accumulatedTime, *)
(* segmentIndex and trackIndex at 0, the history empty, a generator seeded *)
(* from the epoch with index 0 and no draw pool, and a second resetState() *)
(* right after it changes nothing.                                         *)
(***************************************************************************)
C24_ResetStateIsIdempotent ==
    last.op = "reset" =>
        /\ last.err = ""
        /\ station.accumulatedTime = 0
        /\ station.segmentIndex = 0
        /\ station.trackIndex = 0
        /\ station.segmentHistory = <<>>
        /\ station.PRNG = [seed |-> startTimestamp, index |-> 0]
        /\ station.indexDrawPools = NoPools
        /\ resetState(station) = station

C24_Witness ==
    /\ last.op = "reset"
    /\ station.commonListCache.adverts.present
    /\ station.historyLimit = 0
    /\ resetState(station) = station

(***************************************************************************)
(* C25: the startTimestamp of every PlayableSegment that nextSegment()     *)
(* returns is counted from the epoch of the month in which the station was *)
(* last reset, the month its accumulatedTime is counted from: the state is *)
(* reset when the month changes.                                           *)
(***************************************************************************)
C25_StampAndTimeShareTheEpoch ==
    (last.op = "next" /\ last.err = "") =>
        last.ret.startTimestamp[1] = station.PRNG.seed

(***************************************************************************)
(* C26: new RadioStation(...) throws an Error and leaves no object, and    *)
(* the station createStation() builds is a StaticStation for the type      *)
(* "static", a TalkshowStation for "talkshow" and a DynamicStation for     *)
(* every other type or none, in the state resetState() leaves.             *)
(***************************************************************************)
ConcreteVariant ==
    IF Meta.type = "static" THEN "StaticStation"
    ELSE IF Meta.type = "talkshow" THEN "TalkshowStation"
    ELSE "DynamicStation"

InResetState(st) ==
    /\ st.accumulatedTime = 0
    /\ st.segmentIndex = 0
    /\ st.trackIndex = 0
    /\ st.segmentHistory = <<>>
    /\ st.PRNG = [seed |-> startTimestamp, index |-> 0]
    /\ st.indexDrawPools = NoPools

C26_OnlyConcreteStationsAreBuilt ==
    /\ last.op = "new RadioStation" =>
           /\ last.err = "Error"
           /\ Construct("RadioStation").created = NoStation
    /\ (last.op = "createStation" /\ page.meta) =>
           /\ last.err = ""
           /\ page.class = ConcreteVariant
           /\ page.created # NoStation
           /\ InResetState(page.created)
    /\ page.created # NoStation => page.class = ConcreteVariant

C26_Witness ==
    /\ last.op = "createStation"
    /\ Meta.type \notin {"static", "talkshow", "dynamic"}
    /\ page.class = "DynamicStation"
    /\ InResetState(page.created)

C26_AbstractWitness ==
    /\ last.op = "new RadioStation"
    /\ last.err = "Error"
    /\ station # NoStation

(***************************************************************************)
(* C27: a station object exists, and a segment is selected for it, only    *)
(* once the metadata is loaded; a createStation() that finds the fetch     *)
(* failed throws, builds no station, and setStation() goes no further: no  *)
(* getSyncedSegment() or nextSegment() follows.                            *)
(***************************************************************************)
C27_NoStationWithoutMetadata ==
    /\ (page.created # NoStation \/ station # NoStation) => page.meta
    /\ last.op \in {"sync", "next"} => page.meta
    /\ (page.metaPromise = "settled" /\ ~page.meta) =>
           /\ page.pending \in {"none", "createStation"}
           /\ createStation.err # ""
           /\ createStation.created = NoStation
    /\ (last.op = "createStation" /\ ~page.meta) =>
           /\ last.err # ""
           /\ page.pending = "none"
           /\ page.created = NoStation
           /\ station = NoStation

C27_Witness ==
    /\ last.op = "createStation"
    /\ page.metaPromise = "settled"
    /\ ~page.meta
    /\ last.err = "TypeError"
    /\ station = NoStation

C27_LoadedWitness ==
    /\ last.op = "sync"
    /\ last.err = ""
    /\ page.meta

(***************************************************************************)
(* C28: next() returns generate() of the seed and of the index it finds,   *)
(* then adds exactly 1 to the index and leaves the seed; clone() yields a  *)
(* generator with the same seed and index, the values the original and the *)
(* clone return from there on are the same one by one, and next() on one   *)
(* of them leaves the other as it was.                                     *)
(***************************************************************************)
NextOf(before, after, value) ==
    /\ value = generate(EpochWord(before.seed), before.index)
    /\ after.index = before.index + 1
    /\ after.seed = before.seed

SamePrefix(s, t) ==
    \A k \in 1..Len(s) : k <= Len(t) => s[k] = t[k]

GeneratorStep ==
    /\ last'.op = "prng.next" =>
           /\ NextOf(gen.original, gen'.original, last'.ret)
           /\ gen'.cloned = gen.cloned
    /\ last'.op = "cloned.next" =>
           /\ NextOf(gen.cloned, gen'.cloned, last'.ret)
           /\ gen'.original = gen.original
    /\ last'.op = "prng.clone" =>
           /\ gen'.cloned.seed = gen.original.seed
           /\ gen'.cloned.index = gen.original.index
           /\ gen'.original = gen.original

C28_NextAndCloneOfTheGenerator ==
    /\ [][GeneratorStep]_vars
    /\ [](gen.cloned # NoGenerator =>
              /\ SamePrefix(gen.fromOriginal, gen.fromCloned)
              /\ gen.cloned.seed = gen.original.seed
              /\ gen.cloned.index - Len(gen.fromCloned)
                     = gen.original.index - Len(gen.fromOriginal))

C28_Witness ==
    /\ gen.cloned # NoGenerator
    /\ Len(gen.fromOriginal) >= 2
    /\ Len(gen.fromCloned) >= 3
    /\ gen.cloned.index > gen.original.index
    /\ gen.original.index > Len(gen.fromOriginal)
    /\ gen.fromOriginal[1] # gen.fromOriginal[2]

(***************************************************************************)
(* C29: a nextSegment() that returns leaves the generator index of the     *)
(* station raised by the values its selection policy drew: 1 in a dynamic  *)
(* station, 1 in a talkshow station when it chose a transition and 0 when  *)
(* it chose a track, 0 in a static station; the values drawn for           *)
(* voiceovers and by peekSegment() leave it alone.  In a dynamic station   *)
(* the generator index is the segmentIndex after every call.               *)
(***************************************************************************)
PolicyDraws(info) ==
    IF StationClass(Meta.type) = "DynamicStation" THEN 1
    ELSE IF StationClass(Meta.type) = "TalkshowStation" /\ info.category # CAT_MUSIC THEN 1
    ELSE 0

SelectionStepDraws ==
    (last'.op = "next" /\ last'.err = "") =>
        station'.PRNG.index = station.PRNG.index + PolicyDraws(last'.ret.info)

PeekLeavesGenerator ==
    last'.op = "peek" => station'.PRNG = station.PRNG

IndexIsSegmentIndex ==
    StationClass(Meta.type) = "DynamicStation" => station.PRNG.index = station.segmentIndex

C29_IndexAdvancesByPolicyDraws ==
    /\ [][SelectionStepDraws /\ PeekLeavesGenerator]_vars
    /\ []IndexIsSegmentIndex

(***************************************************************************)
(* C30: the category of the segment a selection step produces is the one   *)
(* its policy gives to the list the entry was taken from: MUSIC for an     *)
(* entry of the track list, IDENT for the ident list, DJ_SOLO for the DJ   *)
(* solo list, ADVERT for the adverts; a category field in the entry of the *)
(* metadata does not change it.                                            *)
(***************************************************************************)
TakenFrom(info, list) ==
    \E i \in DOMAIN list :
        info.path \in {list[i].path, resolveObjectPath(list[i]).path}

AssignedCategory(info) ==
    IF TakenFrom(info, Meta.track.items) THEN CAT_MUSIC
    ELSE IF TakenFrom(info, Meta.id.items) THEN CAT_IDENTS
    ELSE IF TakenFrom(info, Meta.mono_solo.items) THEN CAT_DJSOLO
    ELSE CAT_ADVERTS

C30_CategoryIsThePolicys ==
    /\ (last.op \in {"next", "sync"} /\ last.err = "") =>
           last.ret.info.category = AssignedCategory(last.ret.info)
    /\ (last.op = "peek" /\ last.err = "" /\ ~IsNull(last.ret)) =>
           last.ret.category = AssignedCategory(last.ret)

(***************************************************************************)
(* C31: the entries of the station metadata are as station.json gave them  *)
(* whatever the scheduler has tagged, resolved or attached: a segment gets *)
(* its category, its absolute path and a voiceover its offset in an object *)
(* made for it.  The station metadata itself is never replaced.            *)
(***************************************************************************)
C31_MetadataIsNeverModified ==
    /\ Len(heap) >= Len(MetaObjects)
    /\ SubSeq(heap, 1, Len(MetaObjects)) = MetaObjects
    /\ last.op \in {"setSegmentCategory", "resolveObjectPath", "attachVoiceover"} =>
           /\ last.arg < Len(heap)
           /\ heap[Len(heap)] = last.ret

C31_Witness ==
    /\ last.op = "attachVoiceover"
    /\ last.arg <= Len(MetaObjects)
    /\ last.ret.offset # heap[last.arg].offset
    /\ last.ret.path # heap[last.arg].path
    /\ \E ref \in (Len(MetaObjects) + 1)..Len(heap), from \in 1..Len(MetaObjects) :
          /\ ~IsVoiceover(heap[ref])
          /\ ~IsVoiceover(heap[from])
          /\ heap[from].category = NoCat
          /\ heap[ref].category = CAT_MUSIC
          /\ heap[ref].path = heap[from].path

(***************************************************************************)
(* C32: the history never holds more than historyLimit entries; a          *)
(* nextSegment() that returns puts the segment it selected at the front    *)
(* and keeps the earlier ones behind it in their order, as many as the     *)
(* limit allows; setting historyLimit cuts the history to the new limit at *)
(* once; and while historyLimit has not been set, the history holds        *)
(* min(segmentIndex, historyLimit) entries.                                *)
(***************************************************************************)
FirstOf(seq, n) == SubSeq(seq, 1, Min(n, Len(seq)))

HistoryWithinLimit == Len(station.segmentHistory) <= station.historyLimit

HistoryKeepsLastFirst ==
    (last.op \in {"next", "sync"} /\ last.err = "" /\ station.historyLimit >= 1) =>
        /\ Len(station.segmentHistory) >= 1
        /\ resolveObjectPath(station.segmentHistory[1]) = last.ret.info

HistoryLengthUntilLimitSet ==
    limitChanges = 0 =>
        Len(station.segmentHistory) = Min(station.segmentIndex, station.historyLimit)

HistoryStep ==
    /\ (last'.op = "next" /\ last'.err = "") =>
           /\ station'.segmentHistory =
                  FirstOf(FirstOf(station'.segmentHistory, 1) \o station.segmentHistory,
                          station.historyLimit)
    /\ last'.op = "limit" =>
           /\ station'.historyLimit = last'.arg
           /\ station'.segmentHistory = FirstOf(station.segmentHistory, last'.arg)

C32_HistoryIsBoundedAndOrdered ==
    /\ [][HistoryStep]_vars
    /\ [](HistoryWithinLimit /\ HistoryKeepsLastFirst /\ HistoryLengthUntilLimitSet)

(***************************************************************************)
(* C33: in a station whose track list and every list its policy draws a    *)
(* transition from are non-empty, with a positive effective duration for   *)
(* every entry, getSyncedSegment() returns for every time of the month a   *)
(* segment that ends after that time, and every selection step that        *)
(* returns adds to accumulatedTime.                                        *)
(***************************************************************************)
AllPositive(items) == \A i \in DOMAIN items : EffectiveDuration(items[i]) > 0

NonEmpty(items) == Len(items) > 0 /\ AllPositive(items)

ListsAreSound ==
    /\ NonEmpty(Meta.track.items)
    /\ StationClass(Meta.type) # "StaticStation" =>
           /\ NonEmpty(Meta.id.items)
           /\ NonEmpty(getCommonList(NewStation).list)
    /\ StationClass(Meta.type) = "DynamicStation" => NonEmpty(Meta.mono_solo.items)

SyncTerminates ==
    (ListsAreSound /\ last.op = "sync") =>
        /\ last.err = ""
        /\ EndOf(last.ret) > last.arg

TimeAdvances ==
    (ListsAreSound /\ last'.op = "next" /\ last'.err = "") =>
        station'.accumulatedTime > station.accumulatedTime

C33_SyncTerminates ==
    /\ [][TimeAdvances]_vars
    /\ []SyncTerminates

(***************************************************************************)
(* C36: peekSegment(offset) with offset <= 0 returns, a segment or null,   *)
(* in every station type and under every historyLimit >= 0, the limit 0    *)
(* that keeps no current segment included: it never exhausts the stack.    *)
(***************************************************************************)
C36_PastPeekTerminates ==
    (last.op = "peek" /\ last.arg <= 0) => last.err = ""

(***************************************************************************)
(* C34: every nextSegment() call terminates after a bounded number of      *)
(* selection steps: it never exhausts the stack, whatever the policy peeks *)
(* at while it selects and whatever is peeked ahead while the segment is   *)
(* resolved.                                                               *)
(***************************************************************************)
C34_NextSegmentTerminates ==
    last.op = "next" => last.err # "RangeError"

(***************************************************************************)
(* C35: in every state of a station, peekSegment(k) for k > 0 returns the  *)
(* path and the category of the segment that the k-th of the nextSegment() *)
(* calls made next returns, with no resetState() or getSyncedSegment() in  *)
(* between.                                                                *)
(***************************************************************************)
RECURSIVE NextTimes(_, _)
NextTimesRest(r, k) == IF r.err # "" \/ k = 1 THEN r ELSE NextTimes(r.st, k - 1)

NextTimes(st, k) == NextTimesRest(nextSegment(st), k)

SameSelection(info, r) ==
    /\ r.err = ""
    /\ info.path # <<>>
    /\ r.ret.info.path = resolveObjectPath(info).path
    /\ r.ret.info.category = info.category

PeekIsKthNext(pk, k, r) ==
    (pk.err = "" /\ r.err = "") => SameSelection(pk.ret, r)

C35_ForwardPeekIsTheKthNext ==
    \A k \in 1..MaxPeek :
        PeekIsKthNext(peekSegment(station, k, MaxDepth), k,
                      NextTimes(peekSegment(station, k, MaxDepth).st, k))

C35_Witness ==
    /\ last.op = "peek"
    /\ last.arg = 2
    /\ last.err = ""
    /\ station.segmentIndex >= 2
    /\ StationClass(Meta.type) = "DynamicStation"
    /\ last.ret.category = CAT_IDENTS
    /\ peekSegment(station, 1, MaxDepth).ret.category = CAT_ADVERTS
    /\ SameSelection(last.ret, NextTimes(station, 2))

(***************************************************************************)
(* C39: in every state of a pool built for sourceSize S and dontRepeatFor  *)
(* K, draw and discard together hold each of the indexes 0..S-1 exactly    *)
(* once, discard holds at most K of them, and every index next() has       *)
(* returned is one of 0..S-1; a clone() has the draw and the discard of    *)
(* the pool at that moment, and a next() on the pool or on the clone       *)
(* leaves the other as it was.                                             *)
(***************************************************************************)
Range(seq) == {seq[i] : i \in DOMAIN seq}

PoolIsSound(p, S, K) ==
    /\ Len(p.draw) + Len(p.discard) = S
    /\ Range(p.draw) \cup Range(p.discard) = 0..(S - 1)
    /\ Range(p.draw) \cap Range(p.discard) = {}
    /\ Len(p.discard) <= K
    /\ p.dontRepeatFor = K

IndexesOf(indexes, S) ==
    \A i \in DOMAIN indexes : indexes[i] # NoNumber => indexes[i] \in 0..(S - 1)

PoolAndCloneAreSound ==
    /\ PoolIsSound(pool, drawn.sourceSize, drawn.dontRepeatFor)
    /\ IndexesOf(drawn.indexes, drawn.sourceSize)
    /\ poolClone.pool # NoPools =>
           /\ PoolIsSound(poolClone.pool, drawn.sourceSize, drawn.dontRepeatFor)
           /\ IndexesOf(poolClone.indexes, drawn.sourceSize)

CloneStep ==
    /\ (poolClone'.pool # NoPools /\ poolClone'.indexes = <<>> /\ poolClone' # poolClone /\ pool' = pool) =>
           /\ poolClone'.pool.draw = pool.draw
           /\ poolClone'.pool.discard = pool.discard
    /\ (poolClone.pool # NoPools /\ poolClone'.indexes # poolClone.indexes /\ poolClone'.indexes # <<>>) =>
           pool' = pool
    /\ (poolClone.pool # NoPools /\ drawn'.indexes # drawn.indexes /\ drawn'.indexes # <<>>) =>
           poolClone' = poolClone

C39_PoolKeepsEveryIndexOnce ==
    /\ [][CloneStep]_vars
    /\ []PoolAndCloneAreSound

C39_Witness ==
    /\ poolClone.pool # NoPools
    /\ Len(poolClone.indexes) = 2
    /\ Len(drawn.indexes) >= 3
    /\ Len(pool.discard) = drawn.dontRepeatFor
    /\ drawn.dontRepeatFor >= 2
    /\ poolClone.pool.draw # pool.draw
    /\ poolClone.pool.discard # pool.discard
    /\ NoNumber \notin Range(drawn.indexes)

(***************************************************************************)
(* C37: once no setStation() call is waiting any more, the station the     *)
(* page holds and plays is the one at stationIndex, the station selected   *)
(* last, whatever the order in which the metadata of the stations loaded.  *)
(***************************************************************************)
C37_LastSelectionIsLive ==
    (/\ tuner.waiting = <<>>
     /\ tuner.stationIndex # NoNumber
     /\ tuner.meta[tuner.stationIndex] = "loaded") =>
        /\ tuner.station = tuner.stationIndex
        /\ tuner.playing = tuner.stationIndex

(***************************************************************************)
(* C38: while stationIndex is null, that is after stopStation() with no    *)
(* selection made since, no station plays, also when a setStation() call   *)
(* was waiting for createStation() at the time of the stop.                *)
(***************************************************************************)
C38_NothingPlaysAfterStop ==
    tuner.stationIndex = NoNumber => tuner.playing = NoNumber

====
